---------------------------- MODULE Spec2Model ----------------------------
(***************************************************************************)
(* A model of the widget container (src/src/ui.rs: Widgets, Button,        *)
(* TextField, ScrollBar) and of the draw buffer (src/src/render.rs:        *)
(* DrawBuffer) of glium-ui-rs.                                             *)
(*                                                                         *)
(* Conventions.  Indices are 0-based as in the Rust code; W(ws, i) reads   *)
(* the widget at index i.  Option<usize> is a sequence of length <= 1:     *)
(* <<>> is None and <<i>> is Some(i).  Floating point coordinates are      *)
(* integers of a small grid on which the arithmetic of the code is exact.  *)
(* A Rust panic is a fault: the variable fault names it, the state is the  *)
(* one the code had reached when it panicked, and nothing runs afterwards. *)
(***************************************************************************)
EXTENDS Integers, Sequences, FiniteSets, TLC

VARIABLES
    widgets,    \* Widgets.widgets: the sequence of widgets
    focus,      \* Widgets.focus: usize
    events,     \* the Vec<WidgetEvent> returned by the last Widgets call
    calls,      \* the handler invocations of the last dispatch, in order
    lastOp,     \* the last Widgets call: its name, and tab_focus's argument
    tabHist,    \* the states before the latest consecutive tab_focus(true) calls
    fault,      \* "none", or the panic that ended the program
    buf,        \* the DrawBuffer
    bufOp,      \* the last DrawBuffer call and its arguments
    sumIdx,     \* sum of the index counts of the add calls of the session
    queue,      \* Window::show: `events`, the VecDeque of queued events
    winMouse,   \* Window::show: `mouse`, the last cursor position replayed
    controlFlow,\* the event loop's ControlFlow as the closure left it
    arrivals,   \* number of events the event loop has handed to the closure
    delivered,  \* arrival numbers of the events given to a listener callback, in order
    winLog,     \* the listener calls of the closure's last invocation, in order
    winOp,      \* the closure's last invocation: the event and the is_closed poll
    cursorMoves,\* the CursorMoved events handed to the closure: arrival number and position
    textOp,     \* the last Canvas::text call: its arguments, the measured bounds, the origin
    visible,    \* Notification.visible
    dismissed,  \* the Notification's dispose_btn was clicked or it got a close request
    drag        \* the ScrollBars (indices) with a left press inside their bounds and no
                \* mouse-button release since, as the calls of NextIn record them

wvars == <<widgets, focus, events, calls, lastOp, tabHist>>
bvars == <<buf, bufOp, sumIdx>>
cvars == <<textOp>>
gvars == <<drag>>
nvars == <<visible, dismissed>>
dvars == <<queue, winMouse, controlFlow, arrivals, delivered, winLog, winOp, cursorMoves>>
vars == <<widgets, focus, events, calls, lastOp, tabHist, fault, buf, bufOp, sumIdx,
          queue, winMouse, controlFlow, arrivals, delivered, winLog, winOp, cursorMoves,
          textOp, visible, dismissed, drag>>

(***************************************************************************)
(* Bounds of the model.                                                    *)
(***************************************************************************)
MaxWidgets == 2     \* widgets a collection holds
MaxLen == 1         \* characters a TextField value holds
MaxVerts == 3       \* vertices a DrawBuffer accumulates
MaxIdx == 3         \* indices a DrawBuffer accumulates
MaxEvents == 3      \* events, other than NewEvents, the event loop hands to the closure

(***************************************************************************)
(* Geometry and inputs.                                                    *)
(***************************************************************************)
\* bounds (x, y, w, h); the two rectangles share the edge x = 2
RectA == <<0, 0, 2, 1>>
RectB == <<2, 0, 2, 1>>

\* mouse positions: in RectA only, on the shared edge, at the middle of RectB, and below both
Points == {<<1, 0>>, <<2, 0>>, <<3, 0>>, <<1, 3>>}

Buttons == {"Left", "Right"}
ElementStates == {"Pressed", "Released"}
KeyCodes == {"Return", "Back", "Escape", "Delete", "V"}
\* characters: a letter, a digit, and a control character (line feed)
Chars == {"a", "5", "LF"}
\* clipboard contents a paste may find
Clipboards == {<<>>, <<"a">>}
WheelDeltas == {"LineDelta"}

IsControl(ch) == ch = "LF"

\* char::is_numeric on the characters of the model
IsNumeric(ch) == ch \in {"0", "1", "2", "3", "4", "5", "6", "7", "8", "9"}

DigitVal(ch) ==
    CASE ch = "0" -> 0 [] ch = "1" -> 1 [] ch = "2" -> 2 [] ch = "3" -> 3
      [] ch = "4" -> 4 [] ch = "5" -> 5 [] ch = "6" -> 6 [] ch = "7" -> 7
      [] ch = "8" -> 8 [] ch = "9" -> 9

RECURSIVE DecimalValue(_)
DecimalValue(s) ==
    IF s = <<>> THEN 0
    ELSE 10 * DecimalValue(SubSeq(s, 1, Len(s) - 1)) + DigitVal(s[Len(s)])

\* str::parse::<u8>: an optional '+', then at least one ASCII digit, value <= u8::MAX
ParsesU8(s) ==
    LET digits == IF s # <<>> /\ s[1] = "+" THEN Tail(s) ELSE s
    IN  /\ digits # <<>>
        /\ \A k \in 1..Len(digits) : IsNumeric(digits[k])
        /\ DecimalValue(digits) <= 255

\* is_valid_number::<u8>(c, v)
IsValidNumber(c, v) ==
    IF ~IsNumeric(c) THEN FALSE ELSE ParsesU8(Append(v, c))

\* TextFilter::matches, for the filters of the model: "numeric" is TextFilter::numeric::<u8>()
FilterMatches(filter, c, v) ==
    IF filter = "numeric" THEN IsValidNumber(c, v) ELSE TRUE

(***************************************************************************)
(* Widgets.  One record shape for the three variants; a field a variant    *)
(* does not have keeps its initial value.  The fields only draw() reads    *)
(* (label, placeholder, mask, backgrounds, color, last_input_changed) are  *)
(* left out: no handler reads them.                                        *)
(***************************************************************************)
NewWidget(kind, id, bounds, filter) ==
    [kind |-> kind, id |-> id, bounds |-> bounds, focused |-> FALSE,
     hover |-> FALSE, pressed |-> FALSE,       \* Button
     text |-> <<>>, filter |-> filter,         \* TextField: value, filter ("none": no filter)
     value |-> 0, max |-> 100, steps |-> 4]    \* ScrollBar

\* Button::new
NewButton(id, bounds) == NewWidget("Button", id, bounds, "none")
\* TextField::new with an empty value
NewTextField(id, bounds, filter) == NewWidget("TextField", id, bounds, filter)
\* ScrollBar::new(id, 0, 100, 4, ...)
NewScrollBar(id, bounds) == NewWidget("ScrollBar", id, bounds, "none")

\* the widgets an application adds; ids are unique within a collection
Catalog(id) ==
    {NewButton(id, RectA), NewTextField(id, RectA, "numeric"), NewScrollBar(id, RectB)}

W(ws, i) == ws[i + 1]

\* Widget::is_mouse_over (the default method; no variant overrides it)
IsMouseOver(w, mouse) ==
    LET x == w.bounds[1]
        y == w.bounds[2]
        wd == w.bounds[3]
        h == w.bounds[4]
    IN  mouse[1] >= x /\ mouse[1] <= x + wd /\ mouse[2] >= y /\ mouse[2] <= y + h

\* WidgetEvent
FocusChanged(id, f) == [type |-> "FocusChanged", id |-> id, focus |-> f]
ButtonClicked(id) == [type |-> "ButtonClicked", id |-> id]
TextValueChanged(id, v) == [type |-> "TextValueChanged", id |-> id, value |-> v]
ScrollValueChanged(id, v, max, steps) ==
    [type |-> "ScrollValueChanged", id |-> id, value |-> v, max |-> max, steps |-> steps]

Ret(w, evs) == [w |-> w, evs |-> evs]


Min(a, b) == IF a <= b THEN a ELSE b
Max(a, b) == IF a >= b THEN a ELSE b

(***************************************************************************)
(* Button                                                                  *)
(***************************************************************************)
ButtonOnMouseButton(w, button, state, pos) ==
    IF w.hover /\ button = "Left"
    THEN IF state = "Pressed"
         THEN Ret([w EXCEPT !.pressed = TRUE], <<FocusChanged(w.id, TRUE)>>)
         ELSE Ret([w EXCEPT !.pressed = FALSE], <<ButtonClicked(w.id)>>)
    ELSE Ret(w, <<>>)

ButtonOnMouseMove(w, pos) == Ret([w EXCEPT !.hover = IsMouseOver(w, pos)], <<>>)

ButtonOnKeyboardKey(w, key, state) ==
    IF w.focused /\ key = "Return"
    THEN IF state = "Pressed"
         THEN Ret([w EXCEPT !.pressed = TRUE], <<>>)
         ELSE Ret([w EXCEPT !.pressed = FALSE], <<ButtonClicked(w.id)>>)
    ELSE Ret(w, <<>>)

(***************************************************************************)
(* TextField                                                               *)
(***************************************************************************)
TextFieldOnMouseButton(w, button, state, pos) ==
    IF IsMouseOver(w, pos)
    THEN IF button = "Left" /\ state = "Pressed"
         THEN Ret([w EXCEPT !.focused = TRUE], <<FocusChanged(w.id, TRUE)>>)
         ELSE Ret(w, <<>>)
    ELSE Ret([w EXCEPT !.focused = FALSE], <<>>)

\* clip: what the clipboard holds when Ctrl+V reads it
TextFieldOnKeyboardKey(w, key, state, ctrl, clip) ==
    IF w.focused /\ state = "Pressed"
    THEN CASE key = "Back" ->
                IF w.text # <<>>
                THEN LET v == SubSeq(w.text, 1, Len(w.text) - 1)
                     IN  Ret([w EXCEPT !.text = v], <<TextValueChanged(w.id, v)>>)
                ELSE Ret(w, <<>>)
           [] key = "Escape" -> Ret([w EXCEPT !.focused = FALSE], <<>>)
           [] key = "Delete" -> Ret([w EXCEPT !.text = <<>>], <<>>)
           [] key = "V" ->
                IF ctrl
                THEN LET v == w.text \o clip
                     IN  Ret([w EXCEPT !.text = v], <<TextValueChanged(w.id, v)>>)
                ELSE Ret(w, <<>>)
           [] OTHER -> Ret(w, <<>>)
    ELSE Ret(w, <<>>)

\* an on_keyboard_char that does not ask the filter
TextFieldOnKeyboardCharNoFilter(w, ch) ==
    IF w.focused /\ (ch = " " \/ ~IsControl(ch))
    THEN LET v == Append(w.text, ch)
         IN  Ret([w EXCEPT !.text = v], <<TextValueChanged(w.id, v)>>)
    ELSE Ret(w, <<>>)

\* TextField::on_keyboard_char
TextFieldOnKeyboardChar(w, ch) ==
    IF w.focused /\ (ch = " " \/ ~IsControl(ch))
    THEN IF w.filter # "none" /\ ~FilterMatches(w.filter, ch, w.text)
         THEN Ret(w, <<>>)
         ELSE LET v == Append(w.text, ch)
              IN  Ret([w EXCEPT !.text = v], <<TextValueChanged(w.id, v)>>)
    ELSE Ret(w, <<>>)

(***************************************************************************)
(* ScrollBar                                                               *)
(***************************************************************************)
\* ((mouse_x - x) / w * self.max).max(0.0).min(self.max)
ScrollValueAt(w, pos) ==
    Min(Max(((pos[1] - w.bounds[1]) * w.max) \div w.bounds[3], 0), w.max)

ScrollBarOnMouseButton(w, button, state, pos) ==
    IF IsMouseOver(w, pos)
    THEN IF button = "Left"
         THEN IF state = "Pressed"
              THEN LET v == ScrollValueAt(w, pos)
                   IN  Ret([w EXCEPT !.focused = TRUE, !.value = v],
                           <<FocusChanged(w.id, TRUE),
                             ScrollValueChanged(w.id, v, w.max, w.steps)>>)
              ELSE Ret([w EXCEPT !.focused = FALSE], <<FocusChanged(w.id, FALSE)>>)
         ELSE Ret(w, <<>>)
    ELSE Ret([w EXCEPT !.focused = FALSE], <<>>)

ScrollBarOnMouseMove(w, pos) ==
    IF w.focused
    THEN LET v == ScrollValueAt(w, pos)
         IN  IF v # w.value
             THEN Ret([w EXCEPT !.value = v], <<ScrollValueChanged(w.id, v, w.max, w.steps)>>)
             ELSE Ret(w, <<>>)
    ELSE Ret(w, <<>>)

\* f32 values that are not numbers of the grid: NaN and the two infinities.
\* The infinities are ordered as integers beyond every number of the model.
NaN == 2000000
Infinity == 1000000
NegInfinity == -1000000

\* f32::min and f32::max: when one operand is NaN the other is returned
F32Min(a, b) == IF a = NaN THEN b ELSE IF b = NaN THEN a ELSE Min(a, b)
F32Max(a, b) == IF a = NaN THEN b ELSE IF b = NaN THEN a ELSE Max(a, b)

\* a set_value that clamps at 0.0 only
ScrollBarSetValueNoUpper(w, value) == [w EXCEPT !.value = F32Max(value, 0)]

\* ScrollBar::set_value: value.min(self.max).max(0.0)
ScrollBarSetValue(w, value) == [w EXCEPT !.value = F32Max(F32Min(value, w.max), 0)]

\* a ratio is counted in units of 1 / RatioDen: RatioDen is the ratio 1.0
RatioDen == 2

\* ScrollBar::set_ratio_value: ratio.max(0.0).min(1.0) * self.max
ScrollBarSetRatioValue(w, ratio) ==
    [w EXCEPT !.value = (F32Min(F32Max(ratio, 0), RatioDen) * w.max) \div RatioDen]

(***************************************************************************)
(* Dispatch of one input to one widget: the closure propagate_event gets   *)
(* from on_keyboard_char, on_keyboard_key, on_mouse_button, on_mouse_wheel *)
(* and on_mouse_move, resolved on the widget's variant.  A handler the     *)
(* variant does not define is the trait's default, which returns vec![].   *)
(***************************************************************************)
Propagator(in, w) ==
    CASE in.kind = "on_mouse_button" ->
            (CASE w.kind = "Button" -> ButtonOnMouseButton(w, in.button, in.state, in.pos)
               [] w.kind = "TextField" -> TextFieldOnMouseButton(w, in.button, in.state, in.pos)
               [] w.kind = "ScrollBar" -> ScrollBarOnMouseButton(w, in.button, in.state, in.pos))
      [] in.kind = "on_mouse_move" ->
            (CASE w.kind = "Button" -> ButtonOnMouseMove(w, in.pos)
               [] w.kind = "ScrollBar" -> ScrollBarOnMouseMove(w, in.pos)
               [] OTHER -> Ret(w, <<>>))
      [] in.kind = "on_keyboard_key" ->
            (CASE w.kind = "Button" -> ButtonOnKeyboardKey(w, in.key, in.state)
               [] w.kind = "TextField" ->
                      TextFieldOnKeyboardKey(w, in.key, in.state, in.ctrl, in.clip)
               [] OTHER -> Ret(w, <<>>))
      [] in.kind = "on_keyboard_char" ->
            (CASE w.kind = "TextField" -> TextFieldOnKeyboardChar(w, in.ch)
               [] OTHER -> Ret(w, <<>>))
      [] in.kind = "on_mouse_wheel" -> Ret(w, <<>>)

(***************************************************************************)
(* Widgets                                                                 *)
(***************************************************************************)
Indices(ws) == 0..(Len(ws) - 1)

FocusedSet(ws) == {i \in Indices(ws) : W(ws, i).focused}

\* Widgets::change_focus(id): id is an Option<usize>.  Returns the widgets, the
\* focus index and the events of the call.
RECURSIVE ChangeFocusLoop(_, _, _, _)
ChangeFocusLoop(ws, id, i, acc) ==
    IF i >= Len(ws) THEN acc
    ELSE LET e == W(ws, i)
             f == (i = id)
         IN  IF f # e.focused
             THEN ChangeFocusLoop(ws, id, i + 1,
                    [widgets |-> Append(acc.widgets, [e EXCEPT !.focused = f]),
                     events |-> Append(acc.events, FocusChanged(e.id, f))])
             ELSE ChangeFocusLoop(ws, id, i + 1,
                    [widgets |-> Append(acc.widgets, e), events |-> acc.events])

\* a change_focus that focuses widget id and leaves the others as they are
ChangeFocusKeepOthers(ws, fc, id) ==
    IF id # <<>>
    THEN [widgets |-> [k \in 1..Len(ws) |->
                         IF k = id[1] + 1 THEN [ws[k] EXCEPT !.focused = TRUE] ELSE ws[k]],
          focus |-> id[1],
          events |-> IF W(ws, id[1]).focused THEN <<>>
                     ELSE <<FocusChanged(W(ws, id[1]).id, TRUE)>>]
    ELSE [widgets |-> ws, focus |-> fc, events |-> <<>>]

\* a change_focus that does not assign self.focus
ChangeFocusKeepIndex(ws, fc, id) ==
    IF id # <<>>
    THEN LET r == ChangeFocusLoop(ws, id[1], 0, [widgets |-> <<>>, events |-> <<>>])
         IN  [widgets |-> r.widgets, focus |-> fc, events |-> r.events]
    ELSE [widgets |-> ws, focus |-> fc, events |-> <<>>]

ChangeFocus(ws, fc, id) ==
    IF id # <<>>
    THEN LET r == ChangeFocusLoop(ws, id[1], 0, [widgets |-> <<>>, events |-> <<>>])
         IN  [widgets |-> r.widgets, focus |-> id[1], events |-> r.events]
    ELSE [widgets |-> ws, focus |-> fc, events |-> <<>>]

\* a scan that keeps the first request of the round instead of the last
NoteFocusFirst(fc, i, evs) ==
    IF fc = <<>> /\ \E k \in 1..Len(evs) : evs[k].type = "FocusChanged" /\ evs[k].focus
    THEN <<i>> ELSE fc

\* propagate_event, the inner loop over the events one handler returned: the
\* focus request noted so far becomes Some(i) when the events hold a
\* FocusChanged with focus true
NoteFocus(fc, i, evs) ==
    IF \E k \in 1..Len(evs) : evs[k].type = "FocusChanged" /\ evs[k].focus
    THEN <<i>> ELSE fc

\* an inner loop that stops after the first event of a handler
ForwardedFirstOnly(evs) ==
    IF evs = <<>> \/ Head(evs).type = "FocusChanged" THEN <<>> ELSE <<Head(evs)>>

\* propagate_event, the inner loop: the events that are pushed to the result
RECURSIVE Forwarded(_)
Forwarded(evs) ==
    IF evs = <<>> THEN <<>>
    ELSE IF Head(evs).type = "FocusChanged"
         THEN Forwarded(Tail(evs))
         ELSE <<Head(evs)>> \o Forwarded(Tail(evs))

\* an outer loop that stops at the first widget that reacted
LoopStopsOnHit(ws, i, acc) == i < Len(ws) /\ acc.events = <<>> /\ acc.focus = <<>>

\* propagate_event, the outer loop's condition: every widget is visited
LoopContinues(ws, i, acc) == i < Len(ws)

\* propagate_event, the outer loop `for (i, e) in self.widgets.iter_mut().enumerate()`
RECURSIVE PropagateLoop(_, _, _, _)
PropagateLoop(ws, in, i, acc) ==
    IF ~LoopContinues(ws, i, acc) THEN acc
    ELSE LET r == Propagator(in, W(ws, i))
         IN  PropagateLoop(ws, in, i + 1,
                [widgets |-> [acc.widgets EXCEPT ![i + 1] = r.w],
                 events |-> acc.events \o Forwarded(r.evs),
                 focus |-> NoteFocus(acc.focus, i, r.evs),
                 calls |-> Append(acc.calls, [idx |-> i, handler |-> in.kind, ret |-> r.evs])])

\* Widgets::propagate_event
PropagateEvent(ws, fc, in) ==
    LET acc == PropagateLoop(ws, in, 0,
                 [widgets |-> ws, events |-> <<>>, focus |-> <<>>, calls |-> <<>>])
        cf == ChangeFocus(acc.widgets, fc, acc.focus)
    IN  [widgets |-> cf.widgets, focus |-> cf.focus,
         events |-> acc.events \o cf.events, calls |-> acc.calls]

\* Widget::get_cursor of the three variants: Some(Hand) for a Button and a
\* ScrollBar, Some(Text) for a TextField, when the mouse is over the widget
WidgetGetCursor(w, m) ==
    IF IsMouseOver(w, m)
    THEN <<IF w.kind = "TextField" THEN "Text" ELSE "Hand">>
    ELSE <<>>

\* a get_cursor that examines the widgets from the first added on
RECURSIVE GetCursorForward(_, _, _)
GetCursorForward(ws, i, p) ==
    IF i > Len(ws) THEN "Default"
    ELSE IF IsMouseOver(ws[i], p) /\ WidgetGetCursor(ws[i], p) # <<>>
         THEN WidgetGetCursor(ws[i], p)[1]
         ELSE GetCursorForward(ws, i + 1, p)

GetCursorFirstAdded(ws, p) == GetCursorForward(ws, 1, p)

\* Widgets::get_cursor, the loop over self.widgets.iter().rev(): n widgets
\* are still to be examined
RECURSIVE GetCursorRev(_, _, _)
GetCursorRev(ws, n, p) ==
    IF n = 0 THEN "Default"
    ELSE IF IsMouseOver(ws[n], p) /\ WidgetGetCursor(ws[n], p) # <<>>
         THEN WidgetGetCursor(ws[n], p)[1]
         ELSE GetCursorRev(ws, n - 1, p)

\* Widgets::get_cursor
GetCursor(ws, p) == GetCursorRev(ws, Len(ws), p)

\* Rust's % on isize: the remainder has the sign of the dividend
RustRem(a, n) == IF a >= 0 THEN a % n ELSE -((-a) % n)

\* a tab_focus that stops at the ends instead of cycling
TabNewSaturate(fc, n, next) ==
    IF next THEN Min(fc + 1, n - 1) ELSE Max(fc - 1, 0)

\* a tab_focus without the `if new < 0` branch: a negative remainder stays,
\* an index out of the collection's range
TabNewNoFix(fc, n, next) == RustRem(fc + (IF next THEN 1 ELSE -1), n)

\* Widgets::tab_focus, the index `new` (the collection is not empty)
TabNew(fc, n, next) ==
    LET new == RustRem(fc + (IF next THEN 1 ELSE -1), n)
    IN  IF new < 0 THEN n + new ELSE new

\* a tab_focus that changes the focus without comparing prev and new
TabFocusAlways(ws, fc, next) ==
    ChangeFocus(ws, fc, <<TabNew(fc, Len(ws), next)>>)

\* Widgets::tab_focus on a collection that is not empty
TabFocusResult(ws, fc, next) ==
    LET prev == fc % Len(ws)
        new == TabNew(fc, Len(ws), next)
    IN  IF prev # new THEN ChangeFocus(ws, fc, <<new>>)
        ELSE [widgets |-> ws, focus |-> fc, events |-> <<>>]

(***************************************************************************)
(* The operations of Widgets as actions.                                   *)
(***************************************************************************)
\* the last n elements of s
LastN(s, n) == IF Len(s) <= n THEN s ELSE SubSeq(s, Len(s) - n + 1, Len(s))

\* Widgets::add; the application gives each widget an id of its own
Add ==
    /\ fault = "none"
    /\ Len(widgets) < MaxWidgets
    /\ \E w \in Catalog(Len(widgets)) :
          /\ widgets' = Append(widgets, w)
          /\ lastOp' = [kind |-> "add"]
    /\ events' = <<>>
    /\ calls' = <<>>
    /\ tabHist' = <<>>
    /\ UNCHANGED <<focus, fault, bvars, dvars, cvars, gvars, nvars>>

\* one of the five dispatch methods, with the input `in`: each hands its
\* closure to propagate_event and returns what that returns
Dispatch(in) ==
    \E r \in {PropagateEvent(widgets, focus, in)} :
        /\ \A k \in 1..Len(r.widgets) : Len(r.widgets[k].text) <= MaxLen
        /\ widgets' = r.widgets
        /\ focus' = r.focus
        /\ events' = r.events
        /\ calls' = r.calls
        /\ lastOp' = [kind |-> in.kind]
        /\ tabHist' = <<>>
        /\ UNCHANGED <<fault, bvars, dvars, cvars, gvars, nvars>>

\* Widgets::on_mouse_button
OnMouseButton ==
    /\ fault = "none"
    /\ \E button \in Buttons, state \in ElementStates, pos \in Points :
          Dispatch([kind |-> "on_mouse_button", button |-> button, state |-> state, pos |-> pos])

\* Widgets::on_mouse_wheel
OnMouseWheel ==
    /\ fault = "none"
    /\ \E delta \in WheelDeltas : Dispatch([kind |-> "on_mouse_wheel", delta |-> delta])

\* Widgets::on_mouse_move
OnMouseMove ==
    /\ fault = "none"
    /\ \E pos \in Points : Dispatch([kind |-> "on_mouse_move", pos |-> pos])

\* Widgets::on_keyboard_key; the clipboard is read by Ctrl+V only
OnKeyboardKey ==
    /\ fault = "none"
    /\ \E key \in KeyCodes, state \in ElementStates :
        \E ctrl \in (IF key = "V" THEN BOOLEAN ELSE {FALSE}) :
          \E clip \in (IF ctrl THEN Clipboards ELSE {<<>>}) :
            Dispatch([kind |-> "on_keyboard_key", key |-> key, state |-> state,
                      ctrl |-> ctrl, clip |-> clip])

\* Widgets::on_keyboard_char
OnKeyboardChar ==
    /\ fault = "none"
    /\ \E ch \in Chars : Dispatch([kind |-> "on_keyboard_char", ch |-> ch])

\* Widgets::tab_focus: `self.focus % self.widgets.len()` panics when the
\* collection is empty, before anything is changed
TabFocus ==
    /\ fault = "none"
    /\ \E next \in BOOLEAN :
          /\ lastOp' = [kind |-> "tab_focus", next |-> next]
          /\ IF Len(widgets) = 0
             THEN /\ fault' = "remainder by zero"
                  /\ UNCHANGED <<widgets, focus, events, calls, tabHist>>
             ELSE \E r \in {TabFocusResult(widgets, focus, next)} :
                      /\ widgets' = r.widgets
                      /\ focus' = r.focus
                      /\ events' = r.events
                      /\ calls' = <<>>
                      /\ tabHist' =
                            IF next
                            THEN LastN(Append(tabHist,
                                    [focus |-> focus, focused |-> FocusedSet(widgets)]),
                                    MaxWidgets)
                            ELSE <<>>
                      /\ UNCHANGED fault
    /\ UNCHANGED <<bvars, dvars, cvars, gvars, nvars>>

(***************************************************************************)
(* DrawBuffer (src/src/render.rs)                                          *)
(***************************************************************************)
PrimitiveTypes == {"TriangleFan", "LineLoop"}

\* Vertex::pos(p), then .normal(n), .color(c), .uv(t); an Option is <<>> or <<v>>
Vertex(pos, normal, color, uv) ==
    [pos |-> pos, normal |-> normal, color |-> color, texture_uv |-> uv]

\* the vertices callers pass: bare, coloured, with a normal, with a uv, with all
VertexArgs ==
    {Vertex(<<1, 0, 0>>, <<>>, <<>>, <<>>),
     Vertex(<<2, 0, 0>>, <<>>, <<<<1, 0, 0, 1>>>>, <<>>),
     Vertex(<<1, 0, 0>>, <<<<0, 0, 1>>>>, <<>>, <<>>),
     Vertex(<<2, 0, 0>>, <<>>, <<>>, <<<<0, 1>>>>),
     Vertex(<<1, 0, 0>>, <<<<0, 0, 1>>>>, <<<<1, 0, 0, 1>>>>, <<<<0, 1>>>>)}

\* the vertex lists and the local index lists of one add_multiple_vertices call
VertexLists ==
    {<<>>} \cup {<<v>> : v \in VertexArgs} \cup {<<v, u>> : v \in VertexArgs, u \in VertexArgs}
IndexLists ==
    {<<>>} \cup {<<i>> : i \in 0..2} \cup {<<i, j>> : i \in 0..2, j \in 0..2}

\* Option::unwrap_or
UnwrapOr(opt, default) == IF opt = <<>> THEN default ELSE opt[1]

\* WrappedVertex::Simple(SimpleVertex {..}) and WrappedVertex::Textured(TexturedVertex {..})
SimpleVertex(pos, normal, color) ==
    [layout |-> "Simple", pos |-> pos, normal |-> normal, color |-> color]
TexturedVertex(pos, normal, color, uv) ==
    [layout |-> "Textured", pos |-> pos, normal |-> normal, color |-> color, texture_uv |-> uv]

\* DrawBuffer::with_capacity
WithCapacity(n) ==
    [capacity |-> n, index |-> 0, vertices |-> <<>>, indices |-> <<>>,
     normal |-> FALSE, texture |-> FALSE, primitive_type |-> <<>>, drawing |-> FALSE]

\* DrawBuffer::new
NewDrawBuffer == WithCapacity(0)

\* A call's outcome: the buffer as the call left it and "none" or the panic
Out(b, f) == [buf |-> b, fault |-> f]

\* a start_drawing that does not test `drawing`
StartDrawingUnchecked(b, pt, normal, texture) ==
    Out([b EXCEPT !.drawing = TRUE, !.primitive_type = <<pt>>,
                  !.normal = normal, !.texture = texture], "none")

\* DrawBuffer::start_drawing
StartDrawing(b, pt, normal, texture) ==
    IF ~b.drawing
    THEN Out([b EXCEPT !.drawing = TRUE, !.primitive_type = <<pt>>,
                       !.normal = normal, !.texture = texture], "none")
    ELSE Out(b, "Already drawing!")

\* a draw that hands its data over: the buffer is empty afterwards
DrawConsumes(b) ==
    IF b.drawing
    THEN Out([b EXCEPT !.index = 0, !.vertices = <<>>, !.indices = <<>>], "none")
    ELSE Out(b, "Not drawing!")

\* DrawBuffer::draw: the buffers the device is given, or the panic.  It takes
\* &self: the buffer is not changed.
Draw(b) ==
    IF b.drawing
    THEN LET want == IF b.texture THEN "Textured" ELSE "Simple"
         IN  IF \A k \in 1..Len(b.vertices) : b.vertices[k].layout = want
             THEN Out(b, "none")
             ELSE Out(b, "Illegal buffer state")
    ELSE Out(b, "Not drawing!")

\* a reset that keeps the running offset
ResetKeepIndex(b) ==
    [b EXCEPT !.vertices = <<>>, !.indices = <<>>,
              !.primitive_type = <<>>, !.drawing = FALSE]

\* a reset that keeps the accumulated data
ResetKeepVertices(b) ==
    [b EXCEPT !.primitive_type = <<>>, !.drawing = FALSE]

\* DrawBuffer::reset
Reset(b) ==
    [b EXCEPT !.index = 0, !.vertices = <<>>, !.indices = <<>>,
              !.primitive_type = <<>>, !.drawing = FALSE]

\* a vertex loop that asks for a normal as it asks for a uv
RECURSIVE PushVerticesNormalRequired(_, _)
PushVerticesNormalRequired(b, vs) ==
    IF vs = <<>> THEN Out(b, "none")
    ELSE LET vertex == Head(vs)
             color == UnwrapOr(vertex.color, <<1, 1, 1, 1>>)
         IN  IF ~b.normal /\ vertex.normal # <<>>
             THEN Out(b, "Normal is not enabled for current drawing stage")
             ELSE IF ~b.texture /\ vertex.texture_uv # <<>>
             THEN Out(b, "Texture is not enabled for current drawing stage")
             ELSE IF b.normal /\ vertex.normal = <<>>
             THEN Out(b, "Normal getting failed")
             ELSE IF b.texture
             THEN IF vertex.texture_uv = <<>>
                  THEN Out(b, "Texture uv getting failed")
                  ELSE PushVerticesNormalRequired(
                         [b EXCEPT !.vertices = Append(@,
                             TexturedVertex(vertex.pos, UnwrapOr(vertex.normal, <<1, 1, 1>>),
                                            color, vertex.texture_uv[1]))],
                         Tail(vs))
             ELSE PushVerticesNormalRequired(
                    [b EXCEPT !.vertices = Append(@,
                        SimpleVertex(vertex.pos, UnwrapOr(vertex.normal, <<1, 1, 1>>), color))],
                    Tail(vs))

\* a vertex loop that does not test the normal against the session's flag
RECURSIVE PushVerticesNoNormalCheck(_, _)
PushVerticesNoNormalCheck(b, vs) ==
    IF vs = <<>> THEN Out(b, "none")
    ELSE LET vertex == Head(vs)
             color == UnwrapOr(vertex.color, <<1, 1, 1, 1>>)
         IN  IF ~b.texture /\ vertex.texture_uv # <<>>
             THEN Out(b, "Texture is not enabled for current drawing stage")
             ELSE IF b.texture
             THEN IF vertex.texture_uv = <<>>
                  THEN Out(b, "Texture uv getting failed")
                  ELSE PushVerticesNoNormalCheck(
                         [b EXCEPT !.vertices = Append(@,
                             TexturedVertex(vertex.pos, UnwrapOr(vertex.normal, <<1, 1, 1>>),
                                            color, vertex.texture_uv[1]))],
                         Tail(vs))
             ELSE PushVerticesNoNormalCheck(
                    [b EXCEPT !.vertices = Append(@,
                        SimpleVertex(vertex.pos, UnwrapOr(vertex.normal, <<1, 1, 1>>), color))],
                    Tail(vs))

\* add_multiple_vertices, the loop over the vertices: each is checked and
\* pushed in turn, so a panic leaves the earlier ones pushed
RECURSIVE PushVertices(_, _)
PushVertices(b, vs) ==
    IF vs = <<>> THEN Out(b, "none")
    ELSE LET vertex == Head(vs)
             color == UnwrapOr(vertex.color, <<1, 1, 1, 1>>)
         IN  IF ~b.normal /\ vertex.normal # <<>>
             THEN Out(b, "Normal is not enabled for current drawing stage")
             ELSE IF ~b.texture /\ vertex.texture_uv # <<>>
             THEN Out(b, "Texture is not enabled for current drawing stage")
             ELSE IF b.texture
             THEN IF vertex.texture_uv = <<>>
                  THEN Out(b, "Texture uv getting failed")
                  ELSE PushVertices(
                         [b EXCEPT !.vertices = Append(@,
                             TexturedVertex(vertex.pos, UnwrapOr(vertex.normal, <<1, 1, 1>>),
                                            color, vertex.texture_uv[1]))],
                         Tail(vs))
             ELSE PushVertices(
                    [b EXCEPT !.vertices = Append(@,
                        SimpleVertex(vertex.pos, UnwrapOr(vertex.normal, <<1, 1, 1>>), color))],
                    Tail(vs))

\* an off-by-one test of a local index
IndexInRangeInclusive(index, offset) == index <= offset

\* add_multiple_vertices, the test `index < offset` of a local index
IndexInRange(index, offset) == index < offset

\* an index loop that tests a local index against all the vertices of the session
RECURSIVE PushIndicesGlobal(_, _, _)
PushIndicesGlobal(b, is, offset) ==
    IF is = <<>> THEN Out(b, "none")
    ELSE IF Head(is) < b.index + offset
         THEN PushIndicesGlobal([b EXCEPT !.indices = Append(@, b.index + Head(is))],
                                Tail(is), offset)
         ELSE Out(b, "Illegal buffer index")

\* an index loop that stores the local index as it is
RECURSIVE PushIndicesLocal(_, _, _)
PushIndicesLocal(b, is, offset) ==
    IF is = <<>> THEN Out(b, "none")
    ELSE IF IndexInRange(Head(is), offset)
         THEN PushIndicesLocal([b EXCEPT !.indices = Append(@, Head(is))], Tail(is), offset)
         ELSE Out(b, "Illegal buffer index")

\* add_multiple_vertices, the loop over the indices
RECURSIVE PushIndices(_, _, _)
PushIndices(b, is, offset) ==
    IF is = <<>> THEN Out(b, "none")
    ELSE IF IndexInRange(Head(is), offset)
         THEN PushIndices([b EXCEPT !.indices = Append(@, b.index + Head(is))], Tail(is), offset)
         ELSE Out(b, "Illegal buffer index")

\* an add_multiple_vertices that does not test `drawing`
AddMultipleVerticesUnchecked(b, vs, is) ==
    LET offset == Len(vs)
        pv == PushVertices(b, vs)
    IN  IF pv.fault # "none" THEN pv
        ELSE LET pi == PushIndices(pv.buf, is, offset)
             IN  IF pi.fault # "none" THEN pi
                 ELSE Out([pi.buf EXCEPT !.index = @ + offset], "none")

\* DrawBuffer::add_multiple_vertices
AddMultipleVertices(b, vs, is) ==
    IF ~b.drawing THEN Out(b, "Not drawing!")
    ELSE LET offset == Len(vs)
             pv == PushVertices(b, vs)
         IN  IF pv.fault # "none" THEN pv
             ELSE LET pi == PushIndices(pv.buf, is, offset)
                  IN  IF pi.fault # "none" THEN pi
                      ELSE Out([pi.buf EXCEPT !.index = @ + offset], "none")

\* an add_vertex that passes no index
AddVertexNoIndex(b, v) == AddMultipleVertices(b, <<v>>, <<>>)

\* DrawBuffer::add_vertex
AddVertex(b, v) == AddMultipleVertices(b, <<v>>, <<0>>)

\* draw_once: `for vertex in vertices { buffer.add_vertex(vertex); }`
RECURSIVE AddEach(_, _)
AddEach(b, vs) ==
    IF vs = <<>> THEN Out(b, "none")
    ELSE LET r == AddVertex(b, Head(vs))
         IN  IF r.fault # "none" THEN r ELSE AddEach(r.buf, Tail(vs))

\* DrawBuffer::draw_once: the local buffer as the call left it, the panic
\* if any, and the number of draw calls the device got
DrawOnce(pt, normal, texture, vs) ==
    LET s == StartDrawing(WithCapacity(Len(vs)), pt, normal, texture)
        a == IF s.fault # "none" THEN s ELSE AddEach(s.buf, vs)
        d == IF a.fault # "none" THEN a ELSE Draw(a.buf)
    IN  [buf |-> d.buf, fault |-> d.fault,
         draws |-> IF d.fault = "none" THEN 1 ELSE 0]

\* the vertex lists draw_once is given: of no, one, two and three vertices
OnceLists ==
    {<<>>} \cup {<<v>> : v \in VertexArgs} \cup
    {<<Vertex(<<1, 0, 0>>, <<>>, <<>>, <<>>), v,
       Vertex(<<2, 0, 0>>, <<>>, <<<<1, 0, 0, 1>>>>, <<>>)>> :
        v \in {Vertex(<<1, 0, 0>>, <<>>, <<>>, <<>>),
               Vertex(<<2, 0, 0>>, <<>>, <<>>, <<<<0, 1>>>>)}} \cup
    {<<Vertex(<<2, 0, 0>>, <<>>, <<>>, <<<<0, 1>>>>),
       Vertex(<<1, 0, 0>>, <<<<0, 0, 1>>>>, <<<<1, 0, 0, 1>>>>, <<<<0, 1>>>>)>>}

(***************************************************************************)
(* The operations of DrawBuffer as actions.                                *)
(***************************************************************************)
BufStartDrawing ==
    /\ fault = "none"
    /\ \E pt \in PrimitiveTypes, normal \in BOOLEAN, texture \in BOOLEAN :
          \E r \in {StartDrawing(buf, pt, normal, texture)} :
              /\ buf' = r.buf
              /\ fault' = r.fault
              /\ bufOp' = [op |-> "start_drawing", primitive_type |-> pt,
                           normal |-> normal, texture |-> texture]
              /\ sumIdx' = IF r.fault = "none" THEN 0 ELSE sumIdx
    /\ UNCHANGED <<wvars, dvars, cvars, gvars, nvars>>

BufDraw ==
    /\ fault = "none"
    /\ \E r \in {Draw(buf)} :
           /\ buf' = r.buf
           /\ fault' = r.fault
    /\ bufOp' = [op |-> "draw"]
    /\ UNCHANGED <<sumIdx, wvars, dvars, cvars, gvars, nvars>>

BufReset ==
    /\ fault = "none"
    /\ buf' = Reset(buf)
    /\ bufOp' = [op |-> "reset"]
    /\ sumIdx' = 0
    /\ UNCHANGED <<fault, wvars, dvars, cvars, gvars, nvars>>

BufAddMultipleVertices ==
    /\ fault = "none"
    /\ \E vs \in VertexLists, is \in IndexLists :
          /\ Len(buf.vertices) + Len(vs) <= MaxVerts
          /\ Len(buf.indices) + Len(is) <= MaxIdx
          /\ \E r \in {AddMultipleVertices(buf, vs, is)} :
                 /\ buf' = r.buf
                 /\ fault' = r.fault
                 /\ sumIdx' = IF r.fault = "none" THEN sumIdx + Len(is) ELSE sumIdx
          /\ bufOp' = [op |-> "add_multiple_vertices", vertices |-> vs, indices |-> is]
    /\ UNCHANGED <<wvars, dvars, cvars, gvars, nvars>>

BufAddVertex ==
    /\ fault = "none"
    /\ \E v \in VertexArgs :
          /\ Len(buf.vertices) + 1 <= MaxVerts
          /\ Len(buf.indices) + 1 <= MaxIdx
          /\ \E r \in {AddVertex(buf, v)} :
                 /\ buf' = r.buf
                 /\ fault' = r.fault
                 /\ sumIdx' = IF r.fault = "none" THEN sumIdx + 1 ELSE sumIdx
          /\ bufOp' = [op |-> "add_vertex", vertices |-> <<v>>, indices |-> <<0>>]
    /\ UNCHANGED <<wvars, dvars, cvars, gvars, nvars>>

\* DrawBuffer::draw_once: an associated function, it works on a buffer of
\* its own and leaves none behind
BufDrawOnce ==
    /\ fault = "none"
    /\ \E pt \in PrimitiveTypes, normal \in BOOLEAN, texture \in BOOLEAN, vs \in OnceLists :
          \E r \in {DrawOnce(pt, normal, texture, vs)} :
              /\ fault' = r.fault
              /\ bufOp' = [op |-> "draw_once", primitive_type |-> pt, normal |-> normal,
                           texture |-> texture, vertices |-> vs,
                           drawn |-> r.buf, draws |-> r.draws]
    /\ UNCHANGED <<buf, sumIdx, wvars, dvars, cvars, gvars, nvars>>

(***************************************************************************)
(* Specifications.                                                         *)
(***************************************************************************)
\* Widgets::new() and DrawBuffer::new()
Init ==
    /\ widgets = <<>>
    /\ focus = 0
    /\ events = <<>>
    /\ calls = <<>>
    /\ lastOp = [kind |-> "new"]
    /\ tabHist = <<>>
    /\ fault = "none"
    /\ buf = NewDrawBuffer
    /\ bufOp = [op |-> "new"]
    /\ sumIdx = 0
    /\ queue = <<>>
    /\ winMouse = <<0, 0>>
    /\ controlFlow = "Poll"
    /\ arrivals = 0
    /\ delivered = <<>>
    /\ winLog = <<>>
    /\ winOp = [event |-> [kind |-> "none"], closed |-> FALSE]
    /\ cursorMoves = <<>>
    /\ textOp = [op |-> "new"]
    /\ visible = TRUE
    /\ dismissed = FALSE
    /\ drag = {}

\* the calls an application makes on a Widgets container
Next ==
    \/ Add
    \/ OnMouseButton
    \/ OnMouseWheel
    \/ OnMouseMove
    \/ OnKeyboardKey
    \/ OnKeyboardChar
    \/ TabFocus

Spec == Init /\ [][Next]_vars

\* the calls a caller makes on a DrawBuffer
NextBuf ==
    \/ BufStartDrawing
    \/ BufDraw
    \/ BufReset
    \/ BufAddMultipleVertices
    \/ BufAddVertex

SpecBuf == Init /\ [][NextBuf]_vars

\* the calls of a caller that adds its vertices one by one or with draw_once
NextOnce ==
    \/ BufStartDrawing
    \/ BufAddVertex
    \/ BufDraw
    \/ BufReset
    \/ BufDrawOnce

SpecOnce == Init /\ [][NextOnce]_vars

(***************************************************************************)
(* The dispatch methods called on a collection the application has built,  *)
(* with the whole input of the call kept in lastOp.                        *)
(***************************************************************************)
\* mouse positions: Points, and the left edge of RectA, the right edge of
\* RectB and a position to the right of both
PointsIn == Points \cup {<<0, 0>>, <<4, 0>>, <<5, 0>>}

\* the collections: Widgets::new() followed by one or two add calls.  The
\* filter "any" is a TextFilter whose closure returns true for every input.
Scenes ==
    {<<NewScrollBar(0, RectB)>>,
     <<NewButton(0, RectA)>>,
     <<NewTextField(0, RectA, "numeric")>>,
     <<NewTextField(0, RectA, "any")>>,
     <<NewButton(0, RectA), NewScrollBar(1, RectB)>>,
     <<NewTextField(0, RectA, "numeric"), NewButton(1, RectA)>>}

InitIn ==
    /\ widgets \in Scenes
    /\ focus = 0
    /\ events = <<>>
    /\ calls = <<>>
    /\ lastOp = [kind |-> "new"]
    /\ tabHist = <<>>
    /\ fault = "none"
    /\ buf = NewDrawBuffer
    /\ bufOp = [op |-> "new"]
    /\ sumIdx = 0
    /\ queue = <<>>
    /\ winMouse = <<0, 0>>
    /\ controlFlow = "Poll"
    /\ arrivals = 0
    /\ delivered = <<>>
    /\ winLog = <<>>
    /\ winOp = [event |-> [kind |-> "none"], closed |-> FALSE]
    /\ cursorMoves = <<>>
    /\ textOp = [op |-> "new"]
    /\ visible = TRUE
    /\ dismissed = FALSE
    /\ drag = {}

\* the drags in progress after the input: a left press inside a ScrollBar's
\* bounds starts one, a release of any button ends them all
DragAfter(d, ws, in) ==
    IF in.kind # "on_mouse_button" THEN d
    ELSE IF in.state = "Released" THEN {}
    ELSE IF in.button = "Left"
    THEN d \cup {i \in Indices(ws) :
                    W(ws, i).kind = "ScrollBar" /\ IsMouseOver(W(ws, i), in.pos)}
    ELSE d

DispatchIn(in) ==
    \E r \in {PropagateEvent(widgets, focus, in)} :
        /\ \A k \in 1..Len(r.widgets) : Len(r.widgets[k].text) <= MaxLen
        /\ widgets' = r.widgets
        /\ focus' = r.focus
        /\ events' = r.events
        /\ calls' = r.calls
        /\ lastOp' = in
        /\ tabHist' = <<>>
        /\ drag' = DragAfter(drag, widgets, in)
        /\ UNCHANGED <<fault, bvars, dvars, cvars, nvars>>

\* Widgets::on_mouse_button
OnMouseButtonIn ==
    /\ fault = "none"
    /\ \E button \in Buttons, state \in ElementStates, pos \in PointsIn :
          DispatchIn([kind |-> "on_mouse_button", button |-> button,
                      state |-> state, pos |-> pos])

\* Widgets::on_mouse_move
OnMouseMoveIn ==
    /\ fault = "none"
    /\ \E pos \in PointsIn : DispatchIn([kind |-> "on_mouse_move", pos |-> pos])

\* Widgets::on_keyboard_key, without the paste
OnKeyboardKeyIn ==
    /\ fault = "none"
    /\ \E key \in KeyCodes \ {"V"}, state \in ElementStates :
          DispatchIn([kind |-> "on_keyboard_key", key |-> key, state |-> state,
                      ctrl |-> FALSE, clip |-> <<>>])

\* Widgets::on_keyboard_char
OnKeyboardCharIn ==
    /\ fault = "none"
    /\ \E ch \in Chars : DispatchIn([kind |-> "on_keyboard_char", ch |-> ch])

\* Widgets::get_cursor(pos): it takes &self and returns the cursor
GetCursorIn ==
    /\ fault = "none"
    /\ \E pos \in PointsIn :
          lastOp' = [kind |-> "get_cursor", pos |-> pos, ret |-> GetCursor(widgets, pos)]
    /\ events' = <<>>
    /\ calls' = <<>>
    /\ tabHist' = <<>>
    /\ UNCHANGED <<widgets, focus, fault, bvars, dvars, cvars, gvars, nvars>>

\* Widgets::tab_focus
TabFocusIn ==
    /\ fault = "none"
    /\ \E next \in BOOLEAN :
          /\ lastOp' = [kind |-> "tab_focus", next |-> next]
          /\ IF Len(widgets) = 0
             THEN /\ fault' = "remainder by zero"
                  /\ UNCHANGED <<widgets, focus, events, calls>>
             ELSE \E r \in {TabFocusResult(widgets, focus, next)} :
                      /\ widgets' = r.widgets
                      /\ focus' = r.focus
                      /\ events' = r.events
                      /\ calls' = <<>>
                      /\ UNCHANGED fault
    /\ tabHist' = <<>>
    /\ UNCHANGED <<bvars, dvars, cvars, gvars, nvars>>

NextIn ==
    \/ OnMouseButtonIn
    \/ OnMouseMoveIn
    \/ OnKeyboardKeyIn
    \/ OnKeyboardCharIn
    \/ GetCursorIn
    \/ TabFocusIn

SpecIn == InitIn /\ [][NextIn]_vars

(***************************************************************************)
(* One ScrollBar driven through its own methods: the two mouse handlers    *)
(* and the setters set_value and set_ratio_value (src/src/ui.rs).  The     *)
(* setters take any f32: numbers below 0 and above max, NaN, infinities.   *)
(***************************************************************************)
\* ScrollBar::new(id, value, max, 4, 2, 0, 2, 1, color) with max >= 0 and 0 <= value <= max
ScrollBars ==
    {[NewScrollBar(0, RectB) EXCEPT !.value = v, !.max = m] :
        v \in {0, 50, 100}, m \in {0, 100}}
    \ {[NewScrollBar(0, RectB) EXCEPT !.value = v, !.max = 0] : v \in {50, 100}}

\* the arguments of set_value, and of set_ratio_value (-0.5, 0, 0.5, 1, 1.5)
ValueArgs == {-50, 0, 50, 100, 150, NaN, Infinity, NegInfinity}
RatioArgs == {-1, 0, 1, 2, 3, NaN, Infinity, NegInfinity}

InitScroll ==
    /\ widgets \in {<<w>> : w \in ScrollBars}
    /\ focus = 0
    /\ events = <<>>
    /\ calls = <<>>
    /\ lastOp = [kind |-> "new"]
    /\ tabHist = <<>>
    /\ fault = "none"
    /\ buf = NewDrawBuffer
    /\ bufOp = [op |-> "new"]
    /\ sumIdx = 0
    /\ queue = <<>>
    /\ winMouse = <<0, 0>>
    /\ controlFlow = "Poll"
    /\ arrivals = 0
    /\ delivered = <<>>
    /\ winLog = <<>>
    /\ winOp = [event |-> [kind |-> "none"], closed |-> FALSE]
    /\ cursorMoves = <<>>
    /\ textOp = [op |-> "new"]
    /\ visible = TRUE
    /\ dismissed = FALSE
    /\ drag = {}

\* a call of one of the ScrollBar's handlers: the widget it leaves and the events it returns
ScrollCall(in, r) ==
    /\ widgets' = <<r.w>>
    /\ events' = r.evs
    /\ lastOp' = in
    /\ UNCHANGED <<focus, calls, tabHist, fault, bvars, dvars, cvars, gvars, nvars>>

\* ScrollBar::on_mouse_button
ScrollOnMouseButton ==
    /\ fault = "none"
    /\ \E button \in Buttons, state \in ElementStates, pos \in PointsIn :
          ScrollCall([kind |-> "on_mouse_button", button |-> button, state |-> state,
                      pos |-> pos],
                     ScrollBarOnMouseButton(widgets[1], button, state, pos))

\* ScrollBar::on_mouse_move
ScrollOnMouseMove ==
    /\ fault = "none"
    /\ \E pos \in PointsIn :
          ScrollCall([kind |-> "on_mouse_move", pos |-> pos],
                     ScrollBarOnMouseMove(widgets[1], pos))

\* ScrollBar::set_value
ScrollSetValue ==
    /\ fault = "none"
    /\ \E value \in ValueArgs :
          ScrollCall([kind |-> "set_value", value |-> value],
                     Ret(ScrollBarSetValue(widgets[1], value), <<>>))

\* ScrollBar::set_ratio_value
ScrollSetRatioValue ==
    /\ fault = "none"
    /\ \E ratio \in RatioArgs :
          ScrollCall([kind |-> "set_ratio_value", ratio |-> ratio],
                     Ret(ScrollBarSetRatioValue(widgets[1], ratio), <<>>))

NextScroll ==
    \/ ScrollOnMouseButton
    \/ ScrollOnMouseMove
    \/ ScrollSetValue
    \/ ScrollSetRatioValue

SpecScroll == InitScroll /\ [][NextScroll]_vars

(***************************************************************************)
(* The window driver (src/src/window.rs): the closure Window::show gives   *)
(* to run_return.  The event loop calls it once per event.  The listener   *)
(* is the application's: what its is_closed returns is an input of each    *)
(* invocation, and its callbacks are recorded in winLog.                   *)
(***************************************************************************)
\* StartCause of Event::NewEvents
StartCauses == {"Init", "ResumeTimeReached", "WaitCancelled"}

\* the events, other than NewEvents, the event loop hands to the closure:
\* window events with a callback, a window event without one (Resized), a
\* window event that borrows (ScaleFactorChanged) and an event that is not
\* a window event (MainEventsCleared)
WinPoints == {<<1, 0>>, <<3, 0>>}
QueueableHeads ==
    {[kind |-> k, pos |-> <<0, 0>>] :
        k \in {"CloseRequested", "KeyboardInput", "MouseInput", "Resized",
               "ScaleFactorChanged", "MainEventsCleared"}}
    \cup {[kind |-> "CursorMoved", pos |-> p] : p \in WinPoints}

\* the event with its arrival number
Arrived(h, n) == [kind |-> h.kind, pos |-> h.pos, n |-> n]

\* Event::to_static: None for an event that borrows
ToStatic(e) == IF e.kind = "ScaleFactorChanged" THEN <<>> ELSE <<e>>

\* a listener call: its name, the event it is made for (0: none), the position passed
Call(name, n, pos) == [call |-> name, n |-> n, pos |-> pos]

\* the body of the replay loop for one event: the listener call, if the
\* event has one, and `mouse` afterwards
ReplayOne(e, m) ==
    CASE e.kind = "CloseRequested" ->
            [calls |-> <<Call("on_close_requested", e.n, <<>>)>>, mouse |-> m]
      [] e.kind = "Focused" ->
            [calls |-> <<Call("on_focused", e.n, <<>>)>>, mouse |-> m]
      [] e.kind = "KeyboardInput" ->
            [calls |-> <<Call("on_keyboard_key", e.n, <<>>)>>, mouse |-> m]
      [] e.kind = "ReceivedCharacter" ->
            [calls |-> <<Call("on_keyboard_char", e.n, <<>>)>>, mouse |-> m]
      [] e.kind = "MouseInput" ->
            [calls |-> <<Call("on_mouse_button", e.n, m)>>, mouse |-> m]
      [] e.kind = "MouseWheel" ->
            [calls |-> <<Call("on_mouse_wheel", e.n, <<>>)>>, mouse |-> m]
      [] e.kind = "CursorMoved" ->
            [calls |-> <<Call("on_mouse_move", e.n, e.pos)>>, mouse |-> e.pos]
      [] OTHER -> [calls |-> <<>>, mouse |-> m]

\* a replay that takes the newest event first
RECURSIVE ReplayNewestFirst(_, _, _)
ReplayNewestFirst(q, m, log) ==
    IF q = <<>> THEN [log |-> log, mouse |-> m]
    ELSE LET r == ReplayOne(q[Len(q)], m)
         IN  ReplayNewestFirst(SubSeq(q, 1, Len(q) - 1), r.mouse, log \o r.calls)

\* `while let Some(event) = events.pop_front() { .. }`
RECURSIVE Replay(_, _, _)
Replay(q, m, log) ==
    IF q = <<>> THEN [log |-> log, mouse |-> m]
    ELSE LET r == ReplayOne(Head(q), m)
         IN  Replay(Tail(q), r.mouse, log \o r.calls)

\* a new_frame block that replays with `mouse` already at the last queued cursor position
NewFrameLatestMouse(q, m) ==
    LET moves == SelectSeq(q, LAMBDA e : e.kind = "CursorMoved")
        last == IF moves = <<>> THEN m ELSE moves[Len(moves)].pos
    IN  Replay(q, last, <<Call("on_frame_update", 0, m), Call("on_frame_draw", 0, m)>>)

\* the new_frame block: on_frame_update, on_frame_draw, then the replay
NewFrame(q, m) ==
    Replay(q, m, <<Call("on_frame_update", 0, m), Call("on_frame_draw", 0, m)>>)

\* a closure that does not poll is_closed
ClosureNoPoll(q, m, event, closed) ==
    IF event.kind = "NewEvents"
    THEN IF event.cause \in {"ResumeTimeReached", "Init"}
         THEN LET f == NewFrame(q, m)
              IN  [queue |-> <<>>, mouse |-> f.mouse, log |-> f.log,
                   controlFlow |-> "WaitUntil"]
         ELSE [queue |-> q, mouse |-> m, log |-> <<>>, controlFlow |-> "WaitUntil"]
    ELSE [queue |-> q \o ToStatic(event), mouse |-> m, log |-> <<>>,
          controlFlow |-> "WaitUntil"]

\* the closure, called with `event` while the listener's is_closed returns
\* `closed`: the queue, `mouse`, the listener calls made and the
\* ControlFlow it leaves
Closure(q, m, event, closed) ==
    IF closed
    THEN [queue |-> q, mouse |-> m, log |-> <<>>, controlFlow |-> "Exit"]
    ELSE IF event.kind = "NewEvents"
    THEN IF event.cause \in {"ResumeTimeReached", "Init"}
         THEN LET f == NewFrame(q, m)
              IN  [queue |-> <<>>, mouse |-> f.mouse, log |-> f.log,
                   controlFlow |-> "WaitUntil"]
         ELSE [queue |-> q, mouse |-> m, log |-> <<>>, controlFlow |-> "WaitUntil"]
    ELSE [queue |-> q \o ToStatic(event), mouse |-> m, log |-> <<>>,
          controlFlow |-> "WaitUntil"]

\* the arrival numbers of the listener calls made for events
EventNumbers(log) ==
    LET sel == SelectSeq(log, LAMBDA c : c.n # 0)
    IN  [k \in 1..Len(sel) |-> sel[k].n]

\* one invocation of the closure by the running event loop
Invoke(event, closed) ==
    \E r \in {Closure(queue, winMouse, event, closed)} :
        /\ queue' = r.queue
        /\ winMouse' = r.mouse
        /\ winLog' = r.log
        /\ delivered' = delivered \o EventNumbers(r.log)
        /\ winOp' = [event |-> event, closed |-> closed]
        /\ cursorMoves' = IF event.kind = "CursorMoved"
                          THEN Append(cursorMoves, [n |-> event.n, pos |-> event.pos])
                          ELSE cursorMoves
        \* ControlFlow::Exit is kept by the event loop whatever the closure assigns later
        /\ controlFlow' = IF controlFlow = "Exit" THEN "Exit" ELSE r.controlFlow

\* the event loop starts an iteration: Event::NewEvents(cause)
WinNewEvents ==
    /\ controlFlow # "Exit"
    /\ \E cause \in StartCauses, closed \in BOOLEAN :
          Invoke([kind |-> "NewEvents", cause |-> cause], closed)
    /\ UNCHANGED <<arrivals, fault, wvars, bvars, cvars, gvars, nvars>>

\* the event loop hands another event to the closure
WinEvent ==
    /\ controlFlow # "Exit"
    /\ arrivals < MaxEvents
    /\ arrivals' = arrivals + 1
    /\ \E h \in QueueableHeads, closed \in BOOLEAN :
          Invoke(Arrived(h, arrivals + 1), closed)
    /\ UNCHANGED <<fault, wvars, bvars, cvars, gvars, nvars>>

\* after ControlFlow::Exit the event loop finishes its iteration: it hands
\* the events that remain and LoopDestroyed to the closure, never NewEvents
WinAfterExit ==
    /\ controlFlow = "Exit"
    /\ winOp.event.kind # "LoopDestroyed"
    /\ arrivals < MaxEvents
    /\ arrivals' = arrivals + 1
    /\ \E h \in QueueableHeads \cup {[kind |-> "LoopDestroyed", pos |-> <<0, 0>>]},
          closed \in BOOLEAN :
          Invoke(Arrived(h, arrivals + 1), closed)
    /\ UNCHANGED <<fault, wvars, bvars, cvars, gvars, nvars>>

NextWin ==
    \/ WinNewEvents
    \/ WinEvent
    \/ WinAfterExit

SpecWin == Init /\ [][NextWin]_vars

(***************************************************************************)
(* The notification dialog (src/src/ui.rs: Notification) under the window  *)
(* driver: Window::show is given the Notification as its listener, so the  *)
(* closure polls the Notification's is_closed and the replay loop calls    *)
(* its callbacks.  A Notification is the record of its fields widgets      *)
(* (with the container's focus index) and visible.                         *)
(***************************************************************************)
\* the events the event loop hands to the dialog's closure; a mouse or key
\* event carries its button or key and its ElementState
NoteHead(kind, pos, button, key, state) ==
    [kind |-> kind, pos |-> pos, button |-> button, key |-> key, state |-> state]
NoteHeads ==
    {NoteHead("CloseRequested", <<0, 0>>, "none", "none", "none"),
     NoteHead("Resized", <<0, 0>>, "none", "none", "none")}
    \cup {NoteHead("MouseInput", <<0, 0>>, "Left", "none", st) : st \in ElementStates}
    \cup {NoteHead("KeyboardInput", <<0, 0>>, "none", "Return", st) : st \in ElementStates}
    \cup {NoteHead("CursorMoved", p, "none", "none", "none") : p \in WinPoints}

\* the event with its arrival number
NoteArrived(h, n) ==
    [kind |-> h.kind, pos |-> h.pos, button |-> h.button, key |-> h.key,
     state |-> h.state, n |-> n]

\* Notification::is_closed
NotificationIsClosed(note) == note.visible

\* Notification::on_widget_event
OnWidgetEvent(note, event) ==
    IF event.type = "ButtonClicked" /\ event.id = "dispose_btn"
    THEN [note EXCEPT !.visible = FALSE, !.dismissed = TRUE]
    ELSE note

\* `for e in self.widgets.on_..(..) { self.on_widget_event(display, e); }`
RECURSIVE OnWidgetEvents(_, _)
OnWidgetEvents(note, evs) ==
    IF evs = <<>> THEN note
    ELSE OnWidgetEvents(OnWidgetEvent(note, Head(evs)), Tail(evs))

\* a callback that hands the input to the dialog's widgets
NoteDispatch(note, in) ==
    LET r == PropagateEvent(note.widgets, note.focus, in)
    IN  OnWidgetEvents([note EXCEPT !.widgets = r.widgets, !.focus = r.focus], r.events)

\* the Notification's callback for the listener call c the driver makes for the event e
NoteCallback(note, c, e) ==
    CASE c.call = "on_close_requested" ->
            [note EXCEPT !.visible = FALSE, !.dismissed = TRUE]
      [] c.call = "on_mouse_button" ->
            NoteDispatch(note, [kind |-> "on_mouse_button", button |-> e.button,
                                state |-> e.state, pos |-> c.pos])
      [] c.call = "on_mouse_move" ->
            NoteDispatch(note, [kind |-> "on_mouse_move", pos |-> c.pos])
      [] c.call = "on_keyboard_key" ->
            NoteDispatch(note, [kind |-> "on_keyboard_key", key |-> e.key, state |-> e.state,
                                ctrl |-> FALSE, clip |-> <<>>])
      [] OTHER -> note

\* the callbacks of one invocation of the closure, in the order of its calls;
\* q is the queue the calls were replayed from
RECURSIVE NoteCallbacks(_, _, _)
NoteCallbacks(note, log, q) ==
    IF log = <<>> THEN note
    ELSE LET c == Head(log)
             e == IF c.n = 0 THEN c ELSE CHOOSE x \in {q[k] : k \in 1..Len(q)} : x.n = c.n
         IN  NoteCallbacks(NoteCallback(note, c, e), Tail(log), q)

\* listener.on_created(&display), which Window::show calls before it runs
\* the event loop: Notification::on_created adds the dismiss button
NoteOnCreated ==
    /\ fault = "none"
    /\ lastOp.kind = "new"
    /\ widgets' = Append(widgets, NewButton("dispose_btn", RectA))
    /\ lastOp' = [kind |-> "on_created"]
    /\ UNCHANGED <<focus, events, calls, tabHist, fault, bvars, dvars, cvars, gvars, nvars>>

\* one invocation of the closure whose listener is the Notification
NoteInvoke(event) ==
    LET note == [widgets |-> widgets, focus |-> focus, visible |-> visible,
                 dismissed |-> dismissed]
    IN  /\ Invoke(event, NotificationIsClosed(note))
        /\ \E after \in {NoteCallbacks(note, winLog', queue)} :
              /\ widgets' = after.widgets
              /\ focus' = after.focus
              /\ visible' = after.visible
              /\ dismissed' = after.dismissed
        /\ UNCHANGED <<events, calls, lastOp, tabHist, fault, bvars, cvars, gvars>>

\* the event loop starts an iteration: Event::NewEvents(cause)
NoteNewEvents ==
    /\ lastOp.kind = "on_created"
    /\ controlFlow # "Exit"
    /\ \E cause \in StartCauses : NoteInvoke([kind |-> "NewEvents", cause |-> cause])
    /\ UNCHANGED arrivals

\* the event loop hands another event to the closure
NoteEvent ==
    /\ lastOp.kind = "on_created"
    /\ controlFlow # "Exit"
    /\ arrivals < MaxEvents
    /\ arrivals' = arrivals + 1
    /\ \E h \in NoteHeads : NoteInvoke(NoteArrived(h, arrivals + 1))

\* after ControlFlow::Exit the event loop finishes its iteration: it hands
\* the events that remain and LoopDestroyed to the closure, never NewEvents
NoteAfterExit ==
    /\ controlFlow = "Exit"
    /\ winOp.event.kind # "LoopDestroyed"
    /\ arrivals < MaxEvents
    /\ arrivals' = arrivals + 1
    /\ \E h \in NoteHeads \cup {NoteHead("LoopDestroyed", <<0, 0>>, "none", "none", "none")} :
          NoteInvoke(NoteArrived(h, arrivals + 1))

NextNote ==
    \/ NoteOnCreated
    \/ NoteNewEvents
    \/ NoteEvent
    \/ NoteAfterExit

\* notification(): the Notification is built with visible: true and Widgets::new()
SpecNote == Init /\ [][NextNote]_vars

(***************************************************************************)
(* Canvas::text (src/src/render.rs).  Coordinates are integers and the     *)
(* measured bounds are even, so that the halves of the code are exact.     *)
(* The bounds are what the font manager's get_string_bounds returned, the  *)
(* origin is what its draw_string is given.                                *)
(***************************************************************************)
TextAlignHorizontal == {"Left", "Right", "Center"}
TextAlignVertical == {"Top", "Bottom", "Center"}

\* the anchors (x, y) text is called with and the bounds (w, h) measured
TextAnchors == {<<100, 100>>, <<0, 0>>, <<3, 1>>, <<10, 20>>}
TextBounds == {<<20, 10>>, <<0, 0>>, <<6, 4>>}

\* a text that takes the whole extent off for Center too
TextOriginCenterFull(x, y, align_h, align_v, w, h) ==
    <<IF align_h = "Left" THEN x ELSE x - w,
      IF align_v = "Top" THEN y ELSE y - h>>

\* Canvas::text: the `let x = match align_h`, `let y = match align_v`
TextOrigin(x, y, align_h, align_v, w, h) ==
    <<CASE align_h = "Left" -> x
        [] align_h = "Right" -> x - w
        [] align_h = "Center" -> x - w \div 2,
      CASE align_v = "Top" -> y
        [] align_v = "Bottom" -> y - h
        [] align_v = "Center" -> y - h \div 2>>

\* Canvas::text
CanvasText ==
    /\ fault = "none"
    /\ \E a \in TextAnchors, align_h \in TextAlignHorizontal,
          align_v \in TextAlignVertical, b \in TextBounds :
          textOp' = [op |-> "text", x |-> a[1], y |-> a[2], align_h |-> align_h,
                     align_v |-> align_v, bounds |-> b,
                     origin |-> TextOrigin(a[1], a[2], align_h, align_v, b[1], b[2])]
    /\ UNCHANGED <<fault, wvars, bvars, dvars, gvars, nvars>>

NextText == CanvasText

SpecText == Init /\ [][NextText]_vars

(***************************************************************************)
(* Properties.                                                             *)
(***************************************************************************)
DispatchKinds ==
    {"on_mouse_button", "on_mouse_wheel", "on_mouse_move", "on_keyboard_key", "on_keyboard_char"}

AfterDispatch == lastOp.kind \in DispatchKinds

\* a handler's return holds a FocusChanged with focus true
RequestsFocus(evs) == \E k \in 1..Len(evs) : evs[k].type = "FocusChanged" /\ evs[k].focus

\* the widgets that requested focus in the last dispatch
Requesters == {calls[k].idx : k \in {j \in 1..Len(calls) : RequestsFocus(calls[j].ret)}}

MaxOf(S) == CHOOSE m \in S : \A x \in S : x <= m

RECURSIVE Flatten(_)
Flatten(ss) == IF ss = <<>> THEN <<>> ELSE Head(ss) \o Flatten(Tail(ss))

\* everything the handlers of the last dispatch returned, in invocation order
Returned == Flatten([k \in 1..Len(calls) |-> calls[k].ret])

IsFocusEvent(e) == e.type = "FocusChanged"
NotFocusEvent(e) == e.type # "FocusChanged"

Count(e, seq) == Cardinality({k \in 1..Len(seq) : seq[k] = e})

\* C1: after every input dispatch on a collection whose widgets started
\* unfocused, at most one widget is focused.
C1_FocusExclusive ==
    AfterDispatch => Cardinality(FocusedSet(widgets)) <= 1

\* C1's case: two text fields under the pointer both set their own flag in
\* the same press, and one of them is focused afterwards.
C1_Witness ==
    /\ lastOp.kind = "on_mouse_button"
    /\ Len(widgets) >= 2
    /\ W(widgets, 0).kind = "TextField" /\ W(widgets, 1).kind = "TextField"
    /\ RequestsFocus(calls[1].ret) /\ RequestsFocus(calls[2].ret)
    /\ FocusedSet(widgets) = {1}

\* C2: when several widgets request focus in one dispatch, the requester with
\* the highest index is the only focused widget afterwards and the focus
\* index is its index.
C2_LastRequesterWins ==
    (AfterDispatch /\ Cardinality(Requesters) >= 2) =>
        /\ FocusedSet(widgets) = {MaxOf(Requesters)}
        /\ focus = MaxOf(Requesters)

\* C2's case: a hovered button and a scroll bar request focus in the same
\* press, and the later one has it.
C2_Witness ==
    /\ AfterDispatch
    /\ Requesters = {0, 1}
    /\ W(widgets, 0).kind = "Button" /\ W(widgets, 1).kind = "ScrollBar"
    /\ focus = 1 /\ FocusedSet(widgets) = {1}

\* C3: tab_focus on an empty collection does not panic: it returns no events
\* and leaves the container as it was.
C3_TabFocusEmptyIsNoOp ==
    (lastOp.kind = "tab_focus" /\ Len(widgets) = 0) =>
        (fault = "none" /\ events = <<>> /\ focus = 0)

\* C4: on N >= 1 widgets with widget k focused and the focus index k, N
\* consecutive tab_focus(true) calls bring the focus back: the focus index is
\* k and widget k is the only focused widget.
C4_TabCycle ==
    LET n == Len(widgets)
    IN  (n >= 1 /\ Len(tabHist) >= n) =>
            LET start == tabHist[Len(tabHist) - n + 1]
            IN  start.focused = {start.focus} =>
                    (focus = start.focus /\ FocusedSet(widgets) = {start.focus})

\* C4's case: two widgets, the second focused, and two tab_focus(true) calls
\* later the second is focused again.
C4_Witness ==
    /\ Len(widgets) = 2
    /\ Len(tabHist) = 2
    /\ tabHist[1].focus = 1 /\ tabHist[1].focused = {1}
    /\ tabHist[2].focus = 0 /\ tabHist[2].focused = {0}
    /\ focus = 1 /\ FocusedSet(widgets) = {1}

\* the FocusChanged events of the widgets of set S with focus value f
FocusEvents(ws, S, f) == {FocusChanged(W(ws, i).id, f) : i \in S}

C6_AllReturnedDelivered ==
    AfterDispatch => \A k \in 1..Len(Returned) : Count(Returned[k], events) = 1

\* C6, amended: the events other than FocusChanged that the handlers returned
\* are the events other than FocusChanged of the returned list, each once and
\* in the order the handlers returned them, and they come before every
\* FocusChanged of the list.
C6_NonFocusDelivered ==
    AfterDispatch =>
        LET fwd == SelectSeq(Returned, NotFocusEvent)
        IN  /\ Len(events) >= Len(fwd)
            /\ SubSeq(events, 1, Len(fwd)) = fwd
            /\ \A k \in (Len(fwd) + 1)..Len(events) : IsFocusEvent(events[k])

\* C6's case: a scroll bar returned FocusChanged and ScrollValueChanged for a
\* press; only the ScrollValueChanged reached the returned list.
C6_Witness ==
    /\ lastOp.kind = "on_mouse_button"
    /\ \E k \in 1..Len(calls) :
          /\ Len(calls[k].ret) = 2
          /\ IsFocusEvent(calls[k].ret[1])
          /\ events = <<calls[k].ret[2]>>

\* C7: a dispatch invokes the matching handler once on every widget, in
\* sequence order, whatever the earlier widgets returned.
C7_EveryWidgetOnce ==
    AfterDispatch =>
        /\ Len(calls) = Len(widgets)
        /\ \A k \in 1..Len(calls) : calls[k].idx = k - 1 /\ calls[k].handler = lastOp.kind

\* C7's case: the first widget reacted to a press and the second, which did
\* not, was still invoked.
C7_Witness ==
    /\ lastOp.kind = "on_mouse_button"
    /\ Len(widgets) = 2 /\ Len(calls) = 2
    /\ calls[1].ret # <<>>
    /\ calls[2].ret = <<>>

\* C8: in a session whose add calls all succeeded, the number of indices is
\* the sum of the index counts passed, and every index is below the number of
\* vertices.
C8_IndicesInRange ==
    (buf.drawing /\ fault = "none") =>
        /\ Len(buf.indices) = sumIdx
        /\ \A k \in 1..Len(buf.indices) : buf.indices[k] < Len(buf.vertices)

\* C8's case: two add calls, the second's local index 0 stored as 2.
C8_Witness ==
    /\ buf.drawing /\ fault = "none"
    /\ bufOp.op = "add_multiple_vertices" /\ Len(bufOp.vertices) = 1
    /\ Len(buf.vertices) = 3
    /\ buf.indices = <<1, 2>>
    /\ sumIdx = 2

\* C9: start_drawing on a drawing buffer fails and changes nothing, and a
\* drawing buffer stops drawing by reset only (so not by draw).
C9_StartWhileDrawingFails ==
    [][/\ (bufOp'.op = "start_drawing" /\ buf.drawing) =>
             (fault' = "Already drawing!" /\ buf' = buf)
       /\ (buf.drawing /\ ~buf'.drawing) => bufOp'.op = "reset"
      ]_vars

\* C9's case: start_drawing failed on a buffer that holds vertices.
C9_Witness ==
    /\ bufOp.op = "start_drawing"
    /\ fault = "Already drawing!"
    /\ buf.drawing /\ Len(buf.vertices) > 0 /\ Len(buf.indices) > 0

\* C10: on a buffer that is not drawing, add_vertex, add_multiple_vertices
\* and draw fail and leave the buffer idle and empty.
C10_IdleCallsFail ==
    [][(~buf.drawing /\ bufOp'.op \in {"add_vertex", "add_multiple_vertices", "draw"}) =>
          /\ fault' = "Not drawing!"
          /\ ~buf'.drawing
          /\ buf'.vertices = <<>> /\ buf'.indices = <<>> /\ buf'.index = 0
      ]_vars

\* C10's case: add_multiple_vertices with vertices failed on a buffer that
\* was reset after a textured session.
C10_Witness ==
    /\ bufOp.op = "add_multiple_vertices" /\ bufOp.vertices # <<>>
    /\ fault = "Not drawing!"
    /\ buf.texture /\ ~buf.drawing /\ buf.vertices = <<>>

\* the step is a call of add_vertex or add_multiple_vertices on a drawing buffer
AddOps == {"add_vertex", "add_multiple_vertices"}
AddStep == buf.drawing /\ bufOp'.op \in AddOps

\* the panics of the vertex loop: a vertex does not fit the session's flags
NormalFault == "Normal is not enabled for current drawing stage"
TextureFault == "Texture is not enabled for current drawing stage"
CapabilityFaults == {NormalFault, TextureFault, "Texture uv getting failed"}

CarriesNormal(v) == v.normal # <<>>
CarriesUv(v) == v.texture_uv # <<>>
Some(vs, P(_)) == \E k \in 1..Len(vs) : P(vs[k])

\* C11: in a session without normals a call that passes a vertex carrying a
\* normal fails with a capability panic (the normal panic when that vertex is
\* the first of the call); in a session without texture a call that passes a
\* vertex carrying a uv fails with the normal or the texture panic (the
\* texture panic when no vertex of the call carries a forbidden normal).
C11_CapabilityMismatch ==
    [][AddStep =>
          LET vs == bufOp'.vertices
          IN  /\ (~buf.normal /\ Some(vs, CarriesNormal)) =>
                    /\ fault' \in CapabilityFaults
                    /\ CarriesNormal(vs[1]) => fault' = NormalFault
              /\ (~buf.texture /\ Some(vs, CarriesUv)) =>
                    /\ fault' \in {NormalFault, TextureFault}
                    /\ (buf.normal \/ ~Some(vs, CarriesNormal)) => fault' = TextureFault
      ]_vars

\* C11's case: in a session with texture and without normals, the second
\* vertex of a call carries a normal and the call failed on it.
C11_Witness ==
    /\ bufOp.op = "add_multiple_vertices"
    /\ buf.drawing /\ ~buf.normal /\ buf.texture
    /\ Len(bufOp.vertices) = 2
    /\ ~CarriesNormal(bufOp.vertices[1]) /\ CarriesNormal(bufOp.vertices[2])
    /\ fault = NormalFault

\* a vertex fits the session's flags: no normal and no uv the session did not
\* enable, and a uv when the session has texture
Conforms(b, v) ==
    /\ b.normal \/ ~CarriesNormal(v)
    /\ b.texture <=> CarriesUv(v)

\* C12: a call of add_multiple_vertices on a drawing buffer whose vertices
\* all fit the flags fails, with the index panic, exactly when one of its
\* local indices is not below the number of vertices of this call, whatever
\* the number of vertices the session holds already.
C12_IndexOutOfRange ==
    [][(AddStep /\ \A k \in 1..Len(bufOp'.vertices) : Conforms(buf, bufOp'.vertices[k])) =>
          LET bad == \E k \in 1..Len(bufOp'.indices) :
                        bufOp'.indices[k] >= Len(bufOp'.vertices)
          IN  /\ bad => fault' = "Illegal buffer index"
              /\ ~bad => fault' = "none"
      ]_vars

\* C12's case: the session holds two vertices, the call passed one vertex
\* and the local index 1, and failed.
C12_Witness ==
    /\ bufOp.op = "add_multiple_vertices"
    /\ buf.drawing /\ buf.index = 2
    /\ Len(bufOp.vertices) = 1 /\ bufOp.indices = <<1>>
    /\ fault = "Illegal buffer index"

\* C13: a successful add call appends its vertices in order (a missing
\* colour as opaque white, a missing normal as [1,1,1]), appends each local
\* index i as i + c, c the number of vertices held before, and leaves the
\* running offset at c + the number of vertices passed.
C13_AppendsWithOffset ==
    [][(AddStep /\ fault' = "none") =>
          LET vs == bufOp'.vertices
              is == bufOp'.indices
              c  == Len(buf.vertices)
          IN  /\ Len(buf'.vertices) = c + Len(vs)
              /\ SubSeq(buf'.vertices, 1, c) = buf.vertices
              /\ \A k \in 1..Len(vs) :
                    LET stored == buf'.vertices[c + k]
                    IN  /\ stored.pos = vs[k].pos
                        /\ stored.color = UnwrapOr(vs[k].color, <<1, 1, 1, 1>>)
                        /\ stored.normal = UnwrapOr(vs[k].normal, <<1, 1, 1>>)
                        /\ buf.texture => stored.texture_uv = vs[k].texture_uv[1]
              /\ buf'.indices = buf.indices \o [k \in 1..Len(is) |-> is[k] + c]
              /\ buf'.index = c + Len(vs)
      ]_vars

\* C13's case: a second call passed two different vertices and the local
\* indices 1, 0, stored as 2, 1.
C13_Witness ==
    /\ bufOp.op = "add_multiple_vertices" /\ fault = "none"
    /\ Len(bufOp.vertices) = 2 /\ bufOp.vertices[1].pos # bufOp.vertices[2].pos
    /\ bufOp.indices = <<1, 0>>
    /\ Len(buf.vertices) = 3
    /\ buf.indices = <<0, 2, 1>>

\* C14: a successful draw leaves the buffer as it was: still drawing, with
\* the same topology, flags, vertices, indices and running offset.
C14_DrawReadOnly ==
    [][(bufOp'.op = "draw" /\ fault' = "none") => (buf' = buf /\ buf'.drawing)]_vars

\* C14's case: draw succeeded on a buffer that holds vertices and indices.
C14_Witness ==
    /\ bufOp.op = "draw" /\ fault = "none"
    /\ buf.drawing /\ Len(buf.vertices) = 2 /\ Len(buf.indices) = 2

\* C15: reset leaves the buffer idle, without vertices and indices and with
\* the running offset 0, whatever it held; start_drawing on an idle buffer
\* succeeds with the flags it is given; and the first add call of a session
\* stores its local indices unchanged (the first vertex gets index 0).
C15_ResetReuse ==
    [][/\ bufOp'.op = "reset" =>
             /\ ~buf'.drawing /\ buf'.primitive_type = <<>>
             /\ buf'.vertices = <<>> /\ buf'.indices = <<>> /\ buf'.index = 0
             /\ fault' = "none"
       /\ (~buf.drawing /\ bufOp'.op = "start_drawing") =>
             /\ fault' = "none"
             /\ buf'.drawing
             /\ buf'.normal = bufOp'.normal /\ buf'.texture = bufOp'.texture
             /\ buf'.primitive_type = <<bufOp'.primitive_type>>
             /\ buf'.vertices = <<>> /\ buf'.indices = <<>> /\ buf'.index = 0
       /\ (AddStep /\ buf.vertices = <<>> /\ fault' = "none") =>
             buf'.indices = bufOp'.indices
      ]_vars

\* C15's case: reset acted on a buffer that a textured session with normals
\* had used.
C15_Witness ==
    /\ bufOp.op = "reset" /\ fault = "none"
    /\ buf.texture /\ buf.normal
    /\ ~buf.drawing /\ buf.vertices = <<>> /\ buf.index = 0

\* C16: in every reachable state every accumulated vertex has the layout the
\* current texture flag selects, and draw never panics with 'Illegal buffer
\* state'.
C16_LayoutMatchesFlag ==
    /\ \A k \in 1..Len(buf.vertices) :
          buf.vertices[k].layout = IF buf.texture THEN "Textured" ELSE "Simple"
    /\ fault # "Illegal buffer state"

\* C16's case: draw succeeded on the textured vertices of a textured session.
C16_Witness ==
    /\ bufOp.op = "draw" /\ fault = "none"
    /\ buf.texture /\ Len(buf.vertices) = 3
    /\ \A k \in 1..3 : buf.vertices[k].layout = "Textured"

\* C17: an add call that fails with a capability panic or the index panic
\* has appended no vertex and no index, and the running offset is the number
\* of accumulated vertices.
C17_FailedAddAppendsNothing ==
    [][(AddStep /\ fault' \in CapabilityFaults \cup {"Illegal buffer index"}) =>
          /\ buf'.vertices = buf.vertices
          /\ buf'.indices = buf.indices
          /\ buf'.index = Len(buf'.vertices)
      ]_vars

\* the sequence holds e1 and, later, e2
Follows(seq, e1, e2) ==
    \E a \in 1..Len(seq), b \in 1..Len(seq) : a < b /\ seq[a] = e1 /\ seq[b] = e2

Occurs(seq, e) == \E k \in 1..Len(seq) : seq[k] = e

\* C18: after a left press inside a ScrollBar at the fraction p of its
\* width, its value is p * max (within [0, max]) and ScrollValueChanged
\* with that value, max and steps is emitted, followed by FocusChanged with
\* focus true: in the list the dispatch returns or, at least, in the list the
\* handler returned.
C18_PressEmitsScrollThenFocus ==
    (lastOp.kind = "on_mouse_button" /\ lastOp.button = "Left" /\ lastOp.state = "Pressed") =>
        \A i \in Indices(widgets) :
            LET w == W(widgets, i)
                scrolled == ScrollValueChanged(w.id, w.value, w.max, w.steps)
                focused == FocusChanged(w.id, TRUE)
            IN  (w.kind = "ScrollBar" /\ IsMouseOver(w, lastOp.pos)) =>
                   /\ w.value * w.bounds[3] = (lastOp.pos[1] - w.bounds[1]) * w.max
                   /\ w.value >= 0 /\ w.value <= w.max
                   /\ \/ Follows(events, scrolled, focused)
                      \/ Follows(calls[i + 1].ret, scrolled, focused)

\* C19: on a left mouse-down a hovered Button returns FocusChanged with
\* focus true, on a left mouse-up a hovered Button emits ButtonClicked, and
\* a left mouse-up at a position outside the Button's bounds emits no
\* ButtonClicked.
C19_ButtonClick ==
    (lastOp.kind = "on_mouse_button" /\ lastOp.button = "Left") =>
        \A i \in Indices(widgets) :
            LET w == W(widgets, i)
            IN  w.kind = "Button" =>
                   /\ (w.hover /\ lastOp.state = "Pressed") =>
                          Occurs(calls[i + 1].ret, FocusChanged(w.id, TRUE))
                   /\ (w.hover /\ lastOp.state = "Released") =>
                          Occurs(events, ButtonClicked(w.id))
                   /\ (lastOp.state = "Released" /\ ~IsMouseOver(w, lastOp.pos)) =>
                          ~Occurs(events, ButtonClicked(w.id))

\* the step is on_keyboard_char(ch) on a collection whose widget i is a
\* focused TextField with a filter
CharStep(i) ==
    /\ lastOp'.kind = "on_keyboard_char"
    /\ W(widgets, i).kind = "TextField"
    /\ W(widgets, i).focused
    /\ W(widgets, i).filter # "none"

\* the field appended ch and one TextValueChanged carries the new value
CharAppended(i) ==
    LET w == W(widgets, i)
        v == Append(w.text, lastOp'.ch)
    IN  /\ W(widgets', i).text = v
        /\ Count(TextValueChanged(w.id, v), events') = 1

\* the field kept its value and no TextValueChanged of the field is emitted
CharDropped(i) ==
    LET w == W(widgets, i)
    IN  /\ W(widgets', i).text = w.text
        /\ \A k \in 1..Len(events') :
              ~(events'[k].type = "TextValueChanged" /\ events'[k].id = w.id)

\* C20 as amended: a character the filter rejects is dropped; a character the
\* filter accepts is appended, with one TextValueChanged carrying the new
\* value, when it is the space or not a control character, and dropped when
\* it is another control character.
C20_FilteredChar ==
    [][\A i \in Indices(widgets) :
          CharStep(i) =>
             LET w == W(widgets, i)
                 ch == lastOp'.ch
             IN  IF FilterMatches(w.filter, ch, w.text) /\ (ch = " " \/ ~IsControl(ch))
                 THEN CharAppended(i)
                 ELSE CharDropped(i)
      ]_vars

\* C20's case: '5' typed into a focused, empty numeric field was appended
\* and reported.
C20_Witness ==
    /\ lastOp.kind = "on_keyboard_char" /\ lastOp.ch = "5"
    /\ W(widgets, 0).kind = "TextField" /\ W(widgets, 0).filter = "numeric"
    /\ W(widgets, 0).focused
    /\ W(widgets, 0).text = <<"5">>
    /\ events = <<TextValueChanged(0, <<"5">>)>>

\* C20 as stated: a character the filter rejects is dropped and every
\* character the filter accepts is appended and reported.
C20_AcceptedCharAppended ==
    [][\A i \in Indices(widgets) :
          CharStep(i) =>
             IF FilterMatches(W(widgets, i).filter, lastOp'.ch, W(widgets, i).text)
             THEN CharAppended(i)
             ELSE CharDropped(i)
      ]_vars

\* the step is a display tick: the closure got NewEvents with a cause that
\* starts a frame, while is_closed returned false
TickStep ==
    /\ winOp'.event.kind = "NewEvents"
    /\ winOp'.event.cause \in {"ResumeTimeReached", "Init"}
    /\ ~winOp'.closed

\* the listener's input callback for a kind of event, "" when it has none
CallbackOf(kind) ==
    CASE kind = "CloseRequested" -> "on_close_requested"
      [] kind = "Focused" -> "on_focused"
      [] kind = "KeyboardInput" -> "on_keyboard_key"
      [] kind = "ReceivedCharacter" -> "on_keyboard_char"
      [] kind = "MouseInput" -> "on_mouse_button"
      [] kind = "MouseWheel" -> "on_mouse_wheel"
      [] kind = "CursorMoved" -> "on_mouse_move"
      [] OTHER -> ""

HasCallback(e) == CallbackOf(e.kind) # ""

NoDuplicates(seq) == \A a, b \in 1..Len(seq) : seq[a] = seq[b] => a = b

\* C21: a tick calls on_frame_update, then on_frame_draw, then the input
\* callback of every queued event that has one, in arrival order, and leaves
\* the queue empty; an invocation that is not a tick calls nothing; and no
\* event is ever given to a callback twice.
C21_TickOrder ==
    [][/\ TickStep =>
             LET cbs == SubSeq(winLog', 3, Len(winLog'))
                 due == SelectSeq(queue, HasCallback)
             IN  /\ Len(winLog') >= 2
                 /\ winLog'[1].call = "on_frame_update"
                 /\ winLog'[2].call = "on_frame_draw"
                 /\ Len(cbs) = Len(due)
                 /\ \A k \in 1..Len(due) :
                       cbs[k].n = due[k].n /\ cbs[k].call = CallbackOf(due[k].kind)
                 /\ queue' = <<>>
       /\ ~TickStep => (winLog' = <<>> /\ delivered' = delivered)
       /\ NoDuplicates(delivered')
      ]_vars

\* C21's case: a second tick replayed the two events queued since the
\* first tick, which had replayed one, the older event first.
C21_Witness ==
    /\ winOp.event.kind = "NewEvents" /\ ~winOp.closed
    /\ Len(winLog) = 4
    /\ winLog[3].n = 2 /\ winLog[4].n = 3
    /\ delivered = <<1, 2, 3>>
    /\ queue = <<>>

\* C22: the ControlFlow becomes Exit only in an invocation whose is_closed
\* poll returned true; such an invocation calls no listener callback and
\* queues nothing; after Exit no callback is made and Exit stays; and every
\* tick whose poll returned false calls on_frame_update and on_frame_draw.
C22_ExitOnlyWhenClosed ==
    [][/\ (controlFlow # "Exit" /\ controlFlow' = "Exit") => winOp'.closed
       /\ winOp'.closed => (winLog' = <<>> /\ queue' = queue /\ controlFlow' = "Exit")
       /\ controlFlow = "Exit" => (winLog' = <<>> /\ controlFlow' = "Exit")
       /\ (~winOp'.closed /\ controlFlow' # "Exit") => controlFlow' = "WaitUntil"
       /\ TickStep =>
             /\ Len(winLog') >= 2
             /\ winLog'[1].call = "on_frame_update" /\ winLog'[2].call = "on_frame_draw"
      ]_vars

\* C22's case: after frames and callbacks a poll returned true, the loop
\* ended with LoopDestroyed, and the events queued since the last tick were
\* never delivered.
C22_Witness ==
    /\ controlFlow = "Exit"
    /\ winOp.event.kind = "LoopDestroyed"
    /\ delivered # <<>>
    /\ queue # <<>>
    /\ winLog = <<>>

\* the widgets whose bounds, edges included, contain the position
Containing(ws, p) ==
    {i \in Indices(ws) :
        LET b == W(ws, i).bounds
        IN  b[1] <= p[1] /\ p[1] <= b[1] + b[3] /\ b[2] <= p[2] /\ p[2] <= b[2] + b[4]}

\* the cursor hint of a variant
HintOf(kind) == IF kind = "TextField" THEN "Text" ELSE "Hand"

\* C23: get_cursor(p) returns the hint of the last added widget whose
\* bounds, edges included, contain p, and the default cursor when no widget
\* contains p.
C23_GetCursorTopmost ==
    lastOp.kind = "get_cursor" =>
        LET hit == Containing(widgets, lastOp.pos)
        IN  IF hit = {}
            THEN lastOp.ret = "Default"
            ELSE lastOp.ret = HintOf(W(widgets, MaxOf(hit)).kind)

\* C23's case: a TextField and, added later, a Button share their bounds;
\* on the right edge get_cursor returned the Button's hint.
C23_Witness ==
    /\ lastOp.kind = "get_cursor" /\ lastOp.pos = <<2, 0>>
    /\ Len(widgets) = 2
    /\ W(widgets, 0).kind = "TextField" /\ W(widgets, 1).kind = "Button"
    /\ Containing(widgets, lastOp.pos) = {0, 1}
    /\ lastOp.ret = "Hand"

\* the indices 0, 1, .., n - 1
Sequential(n) == [k \in 1..n |-> k - 1]

\* in a session built by add_vertex calls alone the indices are 0 .. N-1
OneByOne(b) == Len(b.indices) = Len(b.vertices) /\ b.indices = Sequential(Len(b.vertices))

\* C24: add_vertex(v) does what add_multiple_vertices([v], [0]) does; a
\* session that N add_vertex calls built holds N vertices and the indices
\* 0 .. N-1; and a draw_once that succeeds has started a session with its
\* flags on a buffer of its own, added its N vertices in order with the
\* indices 0 .. N-1, and made one draw call.
C24_AddVertexSequential ==
    [][/\ bufOp'.op = "add_vertex" =>
             /\ buf' = AddMultipleVertices(buf, bufOp'.vertices, <<0>>).buf
             /\ fault' = AddMultipleVertices(buf, bufOp'.vertices, <<0>>).fault
       /\ (buf'.drawing /\ fault' = "none") => OneByOne(buf')
       /\ (bufOp'.op = "draw_once" /\ fault' = "none") =>
             LET d == bufOp'.drawn
                 vs == bufOp'.vertices
             IN  /\ d.drawing /\ d.capacity = Len(vs)
                 /\ d.primitive_type = <<bufOp'.primitive_type>>
                 /\ d.normal = bufOp'.normal /\ d.texture = bufOp'.texture
                 /\ Len(d.vertices) = Len(vs)
                 /\ \A k \in 1..Len(vs) : d.vertices[k].pos = vs[k].pos
                 /\ d.indices = Sequential(Len(vs))
                 /\ bufOp'.draws = 1
                 /\ buf' = buf
      ]_vars

\* C24's case: draw_once drew three vertices with the indices 0, 1, 2,
\* while the caller's own buffer holds a session of two add_vertex calls.
C24_Witness ==
    /\ bufOp.op = "draw_once" /\ fault = "none"
    /\ Len(bufOp.vertices) = 3
    /\ bufOp.drawn.indices = <<0, 1, 2>>
    /\ bufOp.draws = 1
    /\ buf.drawing /\ buf.indices = <<0, 1>>

\* C25: text starts the glyph run at (x - dx, y - dy): dx is 0, w, w/2 for
\* Left, Right, Center and dy is 0, h, h/2 for Top, Bottom, Center; the
\* anchor (100, 100) with Center, Center and the bounds (20, 10) gives (90, 95).
C25_TextAnchor ==
    textOp.op = "text" =>
        LET w == textOp.bounds[1]
            h == textOp.bounds[2]
            dx2 == IF textOp.align_h = "Left" THEN 0
                   ELSE IF textOp.align_h = "Right" THEN 2 * w ELSE w
            dy2 == IF textOp.align_v = "Top" THEN 0
                   ELSE IF textOp.align_v = "Bottom" THEN 2 * h ELSE h
        IN  /\ 2 * textOp.origin[1] = 2 * textOp.x - dx2
            /\ 2 * textOp.origin[2] = 2 * textOp.y - dy2
            /\ (/\ textOp.x = 100 /\ textOp.y = 100 /\ textOp.bounds = <<20, 10>>
                /\ textOp.align_h = "Center" /\ textOp.align_v = "Center") =>
                   textOp.origin = <<90, 95>>

\* C25's case: the anchor (100, 100), Center and Center, the bounds (20, 10).
C25_Witness ==
    /\ textOp.op = "text"
    /\ textOp.x = 100 /\ textOp.y = 100 /\ textOp.bounds = <<20, 10>>
    /\ textOp.align_h = "Center" /\ textOp.align_v = "Center"
    /\ textOp.origin = <<90, 95>>

\* C26: on a collection that is not empty the focus index is below the
\* number of widgets and every focused widget sits at the focus index.
C26_FocusIndex ==
    Len(widgets) > 0 =>
        /\ focus >= 0 /\ focus < Len(widgets)
        /\ \A i \in FocusedSet(widgets) : i = focus

\* C26's case: the focus index points at the second widget, which a
\* dispatch left unfocused, and no widget is focused.
C26_Witness ==
    /\ AfterDispatch
    /\ Len(widgets) = 2
    /\ focus = 1
    /\ FocusedSet(widgets) = {}

\* C27: when a dispatch or a tab_focus call changes a widget's focus flag,
\* the returned list holds a FocusChanged of that widget with the new flag.
C27_FocusChangeReported ==
    [][lastOp'.kind \in DispatchKinds \cup {"tab_focus"} =>
          \A i \in Indices(widgets) :
              W(widgets', i).focused # W(widgets, i).focused =>
                  Occurs(events', FocusChanged(W(widgets, i).id, W(widgets', i).focused))
      ]_vars

\* C28: a TextField with the numeric filter holds a value that is empty or
\* parses as the filter's number type.
C28_NumericValue ==
    \A i \in Indices(widgets) :
        (W(widgets, i).kind = "TextField" /\ W(widgets, i).filter = "numeric") =>
            (W(widgets, i).text = <<>> \/ ParsesU8(W(widgets, i).text))

\* C29: a dispatch that changes a TextField's value returns a
\* TextValueChanged of the field with the new value, and a dispatch that
\* leaves the value as it was returns no TextValueChanged of the field.
C29_ValueChangeReported ==
    [][lastOp'.kind \in DispatchKinds =>
          \A i \in Indices(widgets) :
              LET w == W(widgets, i)
                  v == W(widgets', i).text
              IN  w.kind = "TextField" =>
                     IF v # w.text
                     THEN Occurs(events', TextValueChanged(w.id, v))
                     ELSE \A k \in 1..Len(events') :
                            ~(events'[k].type = "TextValueChanged" /\ events'[k].id = w.id)
      ]_vars

\* C30: on_mouse_move changes the value of a ScrollBar only while a drag is
\* in progress on it: after a left press inside its bounds and before the
\* next release of a mouse button.
C30_MoveOnlyWhileDragging ==
    [][lastOp'.kind = "on_mouse_move" =>
          \A i \in Indices(widgets) :
              (W(widgets, i).kind = "ScrollBar"
                 /\ W(widgets', i).value # W(widgets, i).value) => i \in drag
      ]_vars

\* C36: in a session with texture, add_vertex with a vertex that has no uv
\* fails and pushes nothing; in a session with normals, add_vertex with a
\* vertex that has no normal and whose uv fits the session succeeds, and the
\* vertex it pushed has the normal [1, 1, 1].
C36_UvRequiredNormalOptional ==
    (bufOp.op = "add_vertex" /\ fault # "Not drawing!") =>
        LET v == bufOp.vertices[1]
            n == Len(buf.vertices)
        IN  /\ (buf.texture /\ ~CarriesUv(v)) =>
                  /\ fault \in CapabilityFaults
                  /\ (~CarriesNormal(v) \/ buf.normal) => fault = "Texture uv getting failed"
            /\ (buf.normal /\ ~CarriesNormal(v) /\ (CarriesUv(v) <=> buf.texture)) =>
                  /\ fault = "none"
                  /\ n > 0
                  /\ buf.vertices[n].pos = v.pos
                  /\ buf.vertices[n].normal = <<1, 1, 1>>

\* C36's case: a session with normals and texture, add_vertex with a vertex
\* that has a uv and no normal: it is pushed with the normal [1, 1, 1].
C36_Witness ==
    /\ bufOp.op = "add_vertex" /\ fault = "none"
    /\ buf.drawing /\ buf.normal /\ buf.texture
    /\ ~CarriesNormal(bufOp.vertices[1]) /\ CarriesUv(bufOp.vertices[1])
    /\ buf.vertices[Len(buf.vertices)].layout = "Textured"
    /\ buf.vertices[Len(buf.vertices)].normal = <<1, 1, 1>>

\* C35: on a collection of exactly one widget, tab_focus(true) and
\* tab_focus(false) return no events and leave the widgets (the focus flag
\* with them) and the focus index as they were.
C35_SoleWidgetTabIsNoOp ==
    [][(Len(widgets) = 1 /\ lastOp'.kind = "tab_focus") =>
          /\ events' = <<>>
          /\ widgets' = widgets
          /\ focus' = focus
          /\ fault' = "none"
      ]_vars

\* C35's case: tab_focus(true) has returned on a collection whose only
\* widget is not focused.
C35_Witness ==
    /\ Len(widgets) = 1
    /\ lastOp.kind = "tab_focus" /\ lastOp.next
    /\ ~widgets[1].focused
    /\ events = <<>>

\* the position of the latest cursor move of `ms` that arrived before the
\* event number n, (0, 0) when there is none
LatestMoveBefore(ms, n) ==
    LET S == {k \in 1..Len(ms) : ms[k].n < n}
    IN  IF S = {} THEN <<0, 0>> ELSE ms[MaxOf(S)].pos

\* C34: every on_mouse_button call of the window driver passes the position
\* of the latest CursorMoved event that arrived before the button event, or
\* (0, 0) when no cursor move arrived before it; cursor moves that arrived
\* after the button event have no part in it.
C34_ButtonPosition ==
    \A k \in 1..Len(winLog) :
        winLog[k].call = "on_mouse_button" =>
            winLog[k].pos = LatestMoveBefore(cursorMoves, winLog[k].n)

\* C34's case: a cursor move, a button event and a cursor move to another
\* position were queued in this order and replayed in one frame; the button
\* callback got the first position.
C34_Witness ==
    /\ Len(cursorMoves) = 2
    /\ cursorMoves[1].pos # cursorMoves[2].pos
    /\ \E k \in 1..Len(winLog) :
          /\ winLog[k].call = "on_mouse_button"
          /\ cursorMoves[1].n < winLog[k].n /\ winLog[k].n < cursorMoves[2].n
          /\ winLog[k].pos = cursorMoves[1].pos
    /\ \E k \in 1..Len(winLog) :
          winLog[k].call = "on_mouse_move" /\ winLog[k].n = cursorMoves[2].n

\* C32: a left mouse release makes a Button emit ButtonClicked only if the
\* Button's pressed flag was set when the release came (a left press on the
\* Button preceded it); a release on a hovered Button that was not pressed
\* emits nothing.
C32_ClickNeedsPress ==
    [][(lastOp'.kind = "on_mouse_button" /\ lastOp'.button = "Left"
            /\ lastOp'.state = "Released") =>
          \A i \in Indices(widgets) :
              LET w == W(widgets, i)
              IN  (w.kind = "Button" /\ ~w.pressed) =>
                     ~Occurs(events', ButtonClicked(w.id))
      ]_vars

\* C33: the value of a ScrollBar built with max >= 0, a width above 0 and a
\* value within [0, max] is a number within [0, max] after every sequence of
\* on_mouse_button, on_mouse_move, set_value and set_ratio_value calls.
C33_ValueInRange ==
    \A k \in 1..Len(widgets) :
        widgets[k].kind = "ScrollBar" =>
            /\ widgets[k].value # NaN
            /\ 0 <= widgets[k].value /\ widgets[k].value <= widgets[k].max

\* C33's case: set_value was called with positive infinity on a ScrollBar
\* that a left press had focused, and the value is the maximum.
C33_Witness ==
    /\ lastOp.kind = "set_value" /\ lastOp.value = Infinity
    /\ widgets[1].focused
    /\ widgets[1].max = 100 /\ widgets[1].value = 100

\* C31: the notification dialog's is_closed answers false as long as the
\* dialog was not dismissed (its dispose_btn was not clicked and no close
\* request reached it) and true once it was.
C31_ClosedOnceDismissed ==
    NotificationIsClosed([visible |-> visible]) <=> dismissed

=============================================================================






